---- MODULE Spec2Model ----
(***************************************************************************)
(* minik8s control core: the object store (in-memory and etcd backends),   *)
(* its watch streams, and the ReplicaSet reconciler, as state machines.    *)
(*                                                                         *)
(* Strings the code slices or concatenates (namespaces, names, store keys, *)
(* resource versions) are sequences of one-character strings, so that key  *)
(* building, prefix tests and integer formatting are computed as the code  *)
(* computes them.                                                          *)
(***************************************************************************)
EXTENDS Integers, Sequences, FiniteSets, TLC

VARIABLES
    now,        \* the wall clock read by time.Now().UnixNano()
    objects,    \* memoryStore.objects: <<kind, "ns/name">> -> object
    watchers,   \* store.watchers: <<kind, ns>> -> sequence of watcher ids
    wch,        \* the watcher structs: events channel, stop channel (+ history)
    nwrites,    \* history: the number of successful writes so far
    ret,        \* the last call on the in-memory store and what it returned
    kv,         \* the etcd key-value state: key -> JSON document
    procs,      \* the goroutines calling the etcd store: where each call is
    feed,       \* per watcher: its startEtcdWatch goroutine and etcd watch channel
    rsc,        \* the ReplicaSet controller: its position in a sync, tracked state
    sched,      \* the scheduler: its position in a pass, scheduledPods
    dpc,        \* the Deployment controller: its position in a sync, tracked state
    mgr,        \* the controller Manager: flags, stop channels, syncLoop goroutines
    loops,      \* the background loops of every component and the shutdown signals
    resp,       \* the last response of the API server
    fac,        \* the store factory: the call made and what it returned
    pair,       \* the last call made on both backends and the two answers
    shut,       \* the stop channels of the watchers, their cleanup goroutines and Close
    unavailable,\* the store cannot be reached: every call on it fails
    life,       \* the component made by a constructor, its flags and goroutines
    agent       \* the node agent: a.pods, and its last syncPod

vars == <<now, objects, watchers, wch, nwrites, ret, kv, procs, feed, rsc, sched, dpc,
          mgr, loops, resp, fac, pair, shut, unavailable, life, agent>>

----------------------------------------------------------------------------
(* Bounds *)

MaxClock == 1          \* the clock reads 0..MaxClock
MaxWrites == 3         \* successful writes by clients per behaviour
WatchBufferSize == 1   \* Options.WatchBufferSize, scaled down from 100
MaxReplicas == 2       \* spec.replicas of a ReplicaSet is 0..MaxReplicas
MaxSyncs == 2          \* syncs of the ReplicaSet controller per behaviour
MaxPasses == 2         \* passes of the scheduler per behaviour
MaxStarts == 2         \* successful Starts of the controller manager
MaxCloses == 2         \* calls of Store.Close per behaviour

Watchers == {1, 2}     \* watcher structs that Watch may allocate

----------------------------------------------------------------------------
(* Strings *)

Slash == "/"
NsNone == <<>>
NsDef == <<"d", "e", "f">>
NsDefault == <<"d", "e", "f", "a", "u", "l", "t">>
Range(s) == {s[i] : i \in DOMAIN s}

HasPrefix(s, p) == Len(s) >= Len(p) /\ SubSeq(s, 1, Len(p)) = p

Digit(d) ==
    CASE d = 0 -> "0" [] d = 1 -> "1" [] d = 2 -> "2" [] d = 3 -> "3"
      [] d = 4 -> "4" [] d = 5 -> "5" [] d = 6 -> "6" [] d = 7 -> "7"
      [] d = 8 -> "8" [] d = 9 -> "9"

DigitVal(c) == CHOOSE d \in 0..9 : Digit(d) = c

RECURSIVE FormatInt(_)
\* fmt.Sprintf("%d", n) / strconv.FormatInt(n, 10) for n >= 0
FormatInt(n) ==
    IF n < 10 THEN <<Digit(n)>> ELSE FormatInt(n \div 10) \o <<Digit(n % 10)>>

RECURSIVE VersionValue(_)
\* the number a resource-version string denotes (the empty string: none, -1)
VersionValue(s) ==
    IF s = <<>> THEN -1
    ELSE IF Len(s) = 1 THEN DigitVal(s[1])
    ELSE 10 * VersionValue(SubSeq(s, 1, Len(s) - 1)) + DigitVal(s[Len(s)])

----------------------------------------------------------------------------
(* Objects *)

\* api.Pod reduced to its kind, the metadata (name, namespace, UID, resource
\* version, owner references), spec.nodeName and status.phase
NewObject(kind, ns, name, phase) ==
    [kind |-> kind, ns |-> ns, name |-> name, uid |-> <<>>, rv |-> <<>>,
     owner |-> <<>>, node |-> <<>>, phase |-> phase]

Ident(o) == <<o.kind, o.ns, o.name>>

\* the objects a client may hand to Create and Update
ClientObjects ==
    {NewObject("Pod", NsDef, <<"p">>, "Pending"),
     NewObject("Pod", NsDefault, <<"p">>, "Pending"),
     NewObject("Pod", NsDefault, <<"p">>, "Running"),
     NewObject("Pod", NsDefault, <<"q">>, "Pending")}

\* the (kind, namespace) pairs a client may list or watch
ListScopes == {<<"Pod", NsNone>>, <<"Pod", NsDef>>, <<"Pod", NsDefault>>}
WatchScopes == {<<"Pod", NsDef>>, <<"Pod", NsDefault>>}

----------------------------------------------------------------------------
(* Watchers (both backends) *)

MapPut(f, k, v) == [x \in DOMAIN f \cup {k} |-> IF x = k THEN v ELSE f[x]]
MapDel(f, k) == [x \in DOMAIN f \ {k} |-> f[x]]

\* the key of s.watchers: kind + "/" + namespace
WatchKey(kind, ns) == <<kind, ns>>

WatchersOf(ws, key) == IF key \in DOMAIN ws THEN ws[key] ELSE <<>>

\* a WatchEvent; history: wid is the number of the write it reports (0 for a
\* snapshot event) and of the identity of the object that write was made to
Event(type, obj, wid, of) == [type |-> type, obj |-> obj, wid |-> wid, of |-> of]

\* what is in the channel w.events: the part of the stream not yet received
Buffer(w) == SubSeq(w.stream, w.nread + 1, Len(w.stream))

\* select { case w.events <- ev: default: }
TrySend(w, ev) ==
    IF Len(w.stream) - w.nread < WatchBufferSize
    THEN [w EXCEPT !.stream = Append(@, ev)]
    ELSE w

\* notifyWatchers gone wrong: the loop ends at the first watcher whose buffer
\* is full (a return in the default case)
NotifyWatchersStopAtFull(ws, chans, type, obj, wid) ==
    LET list == WatchersOf(ws, WatchKey(obj.kind, obj.ns))
        reached(i) == \A j \in 1..(i - 1) :
                          Len(chans[list[j]].stream) - chans[list[j]].nread < WatchBufferSize
    IN [w \in DOMAIN chans |->
            IF \E i \in DOMAIN list : list[i] = w /\ reached(i)
            THEN TrySend(chans[w], Event(type, obj, wid, Ident(obj)))
            ELSE chans[w]]

\* notifyWatchers: one non-blocking send to each watcher of the object's
\* kind and namespace
NotifyWatchers(ws, chans, type, obj, wid) ==
    LET targets == Range(WatchersOf(ws, WatchKey(obj.kind, obj.ns)))
    IN [w \in DOMAIN chans |->
            IF w \in targets THEN TrySend(chans[w], Event(type, obj, wid, Ident(obj)))
            ELSE chans[w]]

----------------------------------------------------------------------------
(* In-memory backend: each call runs under memoryStore.mu, so it is one step *)

ErrNone == "ok"
ErrAlreadyExists == "already exists"
ErrNotFound == "not found"
ErrNoKind == "no objects of kind found"
ErrUnknownKind == "unknown object kind"

\* the errors by which a call reports that its target is absent
NotFoundErrors == {ErrNotFound, ErrNoKind}

\* the map key of an object: namespace + "/" + name
ObjKey(ns, name) == ns \o <<Slash>> \o name

StoreKey(kind, ns, name) == <<kind, ObjKey(ns, name)>>

\* s.objects[kind] == nil
KindMissing(objs, kind) == \A k \in DOMAIN objs : k[1] # kind

\* the namespace test of List and Watch on a map key
KeyInNamespace(key, ns) ==
    /\ Len(key) > Len(ns) + 1
    /\ SubSeq(key, 1, Len(ns)) = ns
    /\ key[Len(ns) + 1] = Slash

\* what a call returns and the store it leaves
Outcome(err, objs, chans, out) ==
    [err |-> err, objects |-> objs, wch |-> chans, out |-> out]

\* memoryStore.Create without its existence check
MemCreateCallNoCheck(objs, ws, chans, t, wid, obj) ==
    LET key == StoreKey(obj.kind, obj.ns, obj.name)
        stored == [obj EXCEPT !.rv = FormatInt(t)]
    IN Outcome(ErrNone, MapPut(objs, key, stored),
               NotifyWatchers(ws, chans, "ADDED", stored, wid), {})

\* memoryStore.Create at clock reading t; wid numbers the write
MemCreateCall(objs, ws, chans, t, wid, obj) ==
    LET key == StoreKey(obj.kind, obj.ns, obj.name)
        stored == [obj EXCEPT !.rv = FormatInt(t)]
    IN IF key \in DOMAIN objs
       THEN Outcome(ErrAlreadyExists, objs, chans, {})
       ELSE Outcome(ErrNone, MapPut(objs, key, stored),
                    NotifyWatchers(ws, chans, "ADDED", stored, wid), {})

\* memoryStore.Get
MemGetCall(objs, chans, kind, ns, name) ==
    LET key == StoreKey(kind, ns, name)
    IN IF KindMissing(objs, kind) THEN Outcome(ErrNoKind, objs, chans, {})
       ELSE IF key \notin DOMAIN objs THEN Outcome(ErrNotFound, objs, chans, {})
       ELSE Outcome(ErrNone, objs, chans, {objs[key]})

\* memoryStore.List (the result in no particular order)
MemListCall(objs, chans, kind, ns) ==
    Outcome(ErrNone, objs, chans,
            {objs[k] : k \in {x \in DOMAIN objs :
                                /\ x[1] = kind
                                /\ (ns = <<>> \/ KeyInNamespace(x[2], ns))}})

\* memoryStore.Update
MemUpdateCall(objs, ws, chans, t, wid, obj) ==
    LET key == StoreKey(obj.kind, obj.ns, obj.name)
        stored == [obj EXCEPT !.rv = FormatInt(t)]
    IN IF KindMissing(objs, obj.kind) THEN Outcome(ErrNoKind, objs, chans, {})
       ELSE IF key \notin DOMAIN objs THEN Outcome(ErrNotFound, objs, chans, {})
       ELSE Outcome(ErrNone, MapPut(objs, key, stored),
                    NotifyWatchers(ws, chans, "MODIFIED", stored, wid), {})

\* memoryStore.Delete
MemDeleteCall(objs, ws, chans, wid, kind, ns, name) ==
    LET key == StoreKey(kind, ns, name)
    IN IF KindMissing(objs, kind) THEN Outcome(ErrNoKind, objs, chans, {})
       ELSE IF key \notin DOMAIN objs THEN Outcome(ErrNotFound, objs, chans, {})
       ELSE Outcome(ErrNone, MapDel(objs, key),
                    NotifyWatchers(ws, chans, "DELETED", objs[key], wid), {})

\* the last Store call: its name, its error and (history) the resource-version
\* stored for its target before and after it
Call(op, err, prev, new) == [op |-> op, err |-> err, prev |-> prev, new |-> new]

NoCall == Call("none", ErrNone, <<>>, <<>>)

StoredVersion(objs, key) == IF key \in DOMAIN objs THEN objs[key].rv ELSE <<>>

\* a call on the in-memory store with outcome r, made on target key
MemApply(op, key, r) ==
    /\ r.err = ErrNone /\ op \in {"Create", "Update", "Delete"}
          => nwrites - rsc.writes - sched.writes - dpc.writes < MaxWrites
    /\ objects' = r.objects
    /\ wch' = r.wch
    /\ nwrites' = IF r.err = ErrNone /\ op \in {"Create", "Update", "Delete"}
                  THEN nwrites + 1 ELSE nwrites
    /\ ret' = Call(op, r.err, StoredVersion(objects, key), StoredVersion(r.objects, key))
    /\ UNCHANGED <<now, watchers, kv, procs, feed, rsc, sched, dpc, mgr, loops, resp, fac, pair, shut, unavailable, life, agent>>

MemCreate(obj) ==
    MemApply("Create", StoreKey(obj.kind, obj.ns, obj.name),
             MemCreateCall(objects, watchers, wch, now, nwrites + 1, obj))

MemGet(kind, ns, name) ==
    MemApply("Get", StoreKey(kind, ns, name), MemGetCall(objects, wch, kind, ns, name))

MemList(kind, ns) ==
    MemApply("List", StoreKey(kind, ns, <<>>), MemListCall(objects, wch, kind, ns))

MemUpdate(obj) ==
    MemApply("Update", StoreKey(obj.kind, obj.ns, obj.name),
             MemUpdateCall(objects, watchers, wch, now, nwrites + 1, obj))

MemDelete(kind, ns, name) ==
    MemApply("Delete", StoreKey(kind, ns, name),
             MemDeleteCall(objects, watchers, wch, nwrites + 1, kind, ns, name))

\* every order in which a range over a Go map may visit the set S
Orders(S) == {s \in [1..Cardinality(S) -> S] : Range(s) = S}

RECURSIVE SendAll(_, _, _)
\* the initial events of Watch: one non-blocking send per object, in order
SendAll(w, objs, i) ==
    IF i > Len(objs) THEN w
    ELSE SendAll(TrySend(w, Event("ADDED", objs[i], 0, Ident(objs[i]))), objs, i + 1)

\* the stored objects the snapshot loop of memoryStore.Watch sends
MemWatchInitial(objs, kind, ns) ==
    {objs[k] : k \in {x \in DOMAIN objs : x[1] = kind /\ KeyInNamespace(x[2], ns)}}

\* the live objects of a kind and namespace (by their fields)
LiveIn(objs, kind, ns) ==
    {objs[k] : k \in {x \in DOMAIN objs : objs[x].kind = kind /\ objs[x].ns = ns}}

\* a watcher struct; snap (history) is the set of objects that were live in its
\* kind and namespace when Watch was called
NewWatcher(kind, ns, snap) ==
    [open |-> TRUE, kind |-> kind, ns |-> ns, stream |-> <<>>, nread |-> 0,
     snap |-> snap]

NoWatcher ==
    [open |-> FALSE, kind |-> "", ns |-> <<>>, stream |-> <<>>, nread |-> 0,
     snap |-> {}]

\* memoryStore.Watch
MemWatch(w, kind, ns) ==
    /\ ~wch[w].open
    /\ \A v \in Watchers : v < w => wch[v].open
    /\ \E order \in Orders(MemWatchInitial(objects, kind, ns)) :
          wch' = [wch EXCEPT ![w] =
                    SendAll(NewWatcher(kind, ns, {Ident(o) : o \in LiveIn(objects, kind, ns)}),
                            order, 1)]
    /\ watchers' = MapPut(watchers, WatchKey(kind, ns),
                          Append(WatchersOf(watchers, WatchKey(kind, ns)), w))
    /\ ret' = Call("Watch", ErrNone, <<>>, <<>>)
    /\ UNCHANGED <<now, objects, nwrites, kv, procs, feed, rsc, sched, dpc, mgr, loops, resp, fac, pair, shut, unavailable, life, agent>>

\* the consumer receives from WatchResult.Events
Receive(w) ==
    /\ wch[w].open
    /\ wch[w].nread < Len(wch[w].stream)
    /\ wch' = [wch EXCEPT ![w].nread = @ + 1]
    /\ ret' = NoCall
    /\ UNCHANGED <<now, objects, watchers, nwrites, kv, procs, feed, rsc, sched, dpc, mgr, loops, resp, fac, pair, shut, unavailable, life, agent>>

----------------------------------------------------------------------------
(* etcd backend: a call is a sequence of steps, one per request to etcd or *)
(* per critical section under etcdStore.mu                                 *)

Procs == {1, 2}        \* the goroutines that call the store

\* s.prefix, the store key prefix of the default configuration
Prefix == <<"/", "m", "i", "n", "i", "k", "8", "s">>

\* a kind as the characters of its name
Chars(kind) ==
    CASE kind = "Pod" -> <<"P", "o", "d">>
      [] kind = "Node" -> <<"N", "o", "d", "e">>
      [] kind = "ReplicaSet" -> <<"R", "e", "p", "l", "i", "c", "a", "S", "e", "t">>
      [] kind = "Deployment" -> <<"D", "e", "p", "l", "o", "y", "m", "e", "n", "t">>
      [] OTHER -> <<>>

RECURSIVE PathJoin(_)
\* path.Join: the non-empty elements separated by "/" (the elements here hold
\* no "." or ".." and no doubled or trailing "/", so Clean changes nothing)
PathJoin(elems) ==
    IF elems = <<>> THEN <<>>
    ELSE LET rest == PathJoin(Tail(elems))
         IN IF Head(elems) = <<>> THEN rest
            ELSE IF rest = <<>> THEN Head(elems)
            ELSE Head(elems) \o <<Slash>> \o rest

\* etcdStore.buildKey
BuildKey(kind, ns, name) ==
    IF ns = <<>> THEN PathJoin(<<Prefix, Chars(kind), name>>)
    ELSE PathJoin(<<Prefix, Chars(kind), ns, name>>)

\* strings.TrimPrefix
TrimPrefix(s, p) == IF HasPrefix(s, p) THEN SubSeq(s, Len(p) + 1, Len(s)) ELSE s

RECURSIVE Split(_)
\* strings.Split(s, "/")
Split(s) ==
    IF \A i \in DOMAIN s : s[i] # Slash THEN <<s>>
    ELSE LET i == CHOOSE x \in DOMAIN s :
                      s[x] = Slash /\ \A j \in 1..(x - 1) : s[j] # Slash
         IN <<SubSeq(s, 1, i - 1)>> \o Split(SubSeq(s, i + 1, Len(s)))

\* json.Marshal of a Pod: the document with the fields under their tags
Marshal(o) ==
    [kind |-> o.kind,
     metadata |-> [name |-> o.name, namespace |-> o.ns, uid |-> o.uid,
                   resourceVersion |-> o.rv, ownerReferences |-> o.owner],
     spec |-> [nodeName |-> o.node],
     status |-> [phase |-> o.phase]]

\* json.Unmarshal of a document into an api.Pod
Unmarshal(doc) ==
    [kind |-> doc.kind, ns |-> doc.metadata.namespace, name |-> doc.metadata.name,
     uid |-> doc.metadata.uid, rv |-> doc.metadata.resourceVersion,
     owner |-> doc.metadata.ownerReferences, node |-> doc.spec.nodeName,
     phase |-> doc.status.phase]

\* the kinds Get, List and the watch feed can decode
Decodable == {"Pod", "Node"}

\* the api.Pod the watch feed builds for a deleted key: name and namespace from
\* the key, every other field (the kind too) zero
MinimalPod(parts) ==
    [NewObject("", parts[2], parts[Len(parts)], "") EXCEPT !.kind = ""]

\* an event of etcd's own watch; history: wid numbers the write and of is the
\* identity of the object written
KvEvent(type, key, value, isCreate, wid, of) ==
    [type |-> type, key |-> key, value |-> value, isCreate |-> isCreate,
     wid |-> wid, of |-> of]

\* the state of a watcher's startEtcdWatch goroutine and its etcd watch channel
NoFeed == [state |-> "none", prefix |-> <<>>, q |-> <<>>]

\* etcd appends an event to every open watch whose prefix the key has
Publish(fd, ev) ==
    [w \in DOMAIN fd |->
        IF fd[w].state = "watching" /\ HasPrefix(ev.key, fd[w].prefix)
        THEN [fd[w] EXCEPT !.q = Append(@, ev)]
        ELSE fd[w]]

\* a goroutine's call: its position, its arguments and result; history: free
\* (the key was free when the call began) and conc (the goroutines that were
\* inside a Create of the same key when the call began)
IdleProc ==
    [pc |-> "idle", op |-> "none", obj |-> NewObject("", <<>>, <<>>, ""),
     err |-> ErrNone, out |-> {}, wid |-> 0, free |-> FALSE, conc |-> {},
     w |-> 0, todo |-> <<>>]

Returned(p) == procs[p].pc \in {"idle", "done"}

InFlightWrites == Cardinality({q \in Procs : procs[q].pc \in {"put", "del"}})

\* a call begins: the caller is between calls and the writes still fit
Begins(p, writes) ==
    /\ Returned(p)
    /\ writes => nwrites + InFlightWrites < MaxWrites

\* the record of a call that has begun; the caller's earlier call no longer
\* overlaps anything
Began(p, op, obj, fields) ==
    LET key == BuildKey(obj.kind, obj.ns, obj.name)
        inCreate == {q \in Procs \ {p} :
                        /\ ~Returned(q)
                        /\ procs[q].op = "Create"
                        /\ BuildKey(procs[q].obj.kind, procs[q].obj.ns,
                                    procs[q].obj.name) = key}
        start == [IdleProc EXCEPT !.op = op, !.obj = obj,
                                  !.free = key \notin DOMAIN kv,
                                  !.conc = inCreate]
    IN [q \in Procs |->
            IF q = p THEN [x \in DOMAIN start |->
                              IF x \in DOMAIN fields THEN fields[x] ELSE start[x]]
            ELSE [procs[q] EXCEPT !.conc = @ \ {p}]]

\* etcdStore.Create, the existence check
EtcdCreateGet(p, obj) ==
    /\ Begins(p, TRUE)
    /\ procs' = IF BuildKey(obj.kind, obj.ns, obj.name) \in DOMAIN kv
                THEN Began(p, "Create", obj, [pc |-> "done", err |-> ErrAlreadyExists])
                ELSE Began(p, "Create", obj, [pc |-> "put"])
    /\ UNCHANGED <<now, objects, watchers, wch, nwrites, ret, kv, feed, rsc, sched, dpc, mgr, loops, resp, fac, pair, shut, unavailable, life, agent>>

\* etcdStore.Update, the existence check
EtcdUpdateGet(p, obj) ==
    /\ Begins(p, TRUE)
    /\ procs' = IF BuildKey(obj.kind, obj.ns, obj.name) \notin DOMAIN kv
                THEN Began(p, "Update", obj, [pc |-> "done", err |-> ErrNotFound])
                ELSE Began(p, "Update", obj, [pc |-> "put"])
    /\ UNCHANGED <<now, objects, watchers, wch, nwrites, ret, kv, feed, rsc, sched, dpc, mgr, loops, resp, fac, pair, shut, unavailable, life, agent>>

\* etcdStore.Create and Update: version, Marshal and Put
EtcdPut(p) ==
    /\ procs[p].pc = "put"
    /\ LET stored == [procs[p].obj EXCEPT !.rv = FormatInt(now)]
           key == BuildKey(stored.kind, stored.ns, stored.name)
           ev == KvEvent("PUT", key, Marshal(stored), key \notin DOMAIN kv,
                         nwrites + 1, Ident(stored))
       IN /\ kv' = MapPut(kv, key, Marshal(stored))
          /\ feed' = Publish(feed, ev)
          /\ procs' = [procs EXCEPT ![p].obj = stored, ![p].wid = nwrites + 1,
                                    ![p].pc = "notify"]
    /\ nwrites' = nwrites + 1
    /\ UNCHANGED <<now, objects, watchers, wch, ret, rsc, sched, dpc, mgr, loops, resp, fac, pair, shut, unavailable, life, agent>>

\* the event type a write call hands to notifyWatchers
NotifyType(op) ==
    CASE op = "Create" -> "ADDED" [] op = "Update" -> "MODIFIED"
      [] op = "Delete" -> "DELETED"

\* etcdStore.Create, Update and Delete: notifyWatchers and return
EtcdNotify(p) ==
    /\ procs[p].pc = "notify"
    /\ wch' = NotifyWatchers(watchers, wch, NotifyType(procs[p].op), procs[p].obj,
                             procs[p].wid)
    /\ procs' = [procs EXCEPT ![p].pc = "done", ![p].err = ErrNone]
    /\ UNCHANGED <<now, objects, watchers, nwrites, ret, kv, feed, rsc, sched, dpc, mgr, loops, resp, fac, pair, shut, unavailable, life, agent>>

\* the objects stored in etcd
EtcdLive(store) == {Unmarshal(store[k]) : k \in DOMAIN store}

\* etcdStore.Get on the key-value state
EtcdGetCall(store, kind, ns, name) ==
    LET key == BuildKey(kind, ns, name)
    IN IF key \notin DOMAIN store THEN [err |-> ErrNotFound, out |-> {}]
       ELSE IF kind \notin Decodable THEN [err |-> ErrUnknownKind, out |-> {}]
       ELSE [err |-> ErrNone, out |-> {Unmarshal(store[key])}]

\* etcdStore.List on the key-value state (etcd returns the range in key order;
\* the result is kept as a set)
EtcdListCall(store, kind, ns) ==
    LET prefix == BuildKey(kind, ns, <<>>)
    IN [err |-> ErrNone,
        out |-> IF kind \notin Decodable THEN {}
                ELSE {Unmarshal(store[k]) :
                          k \in {x \in DOMAIN store : HasPrefix(x, prefix) /\ x # prefix}}]

EtcdGet(p, kind, ns, name) ==
    /\ Begins(p, FALSE)
    /\ LET r == EtcdGetCall(kv, kind, ns, name)
       IN procs' = Began(p, "Get", NewObject(kind, ns, name, ""),
                         [pc |-> "done", err |-> r.err, out |-> r.out])
    /\ UNCHANGED <<now, objects, watchers, wch, nwrites, ret, kv, feed, rsc, sched, dpc, mgr, loops, resp, fac, pair, shut, unavailable, life, agent>>

EtcdList(p, kind, ns) ==
    /\ Begins(p, FALSE)
    /\ LET r == EtcdListCall(kv, kind, ns)
       IN procs' = Began(p, "List", NewObject(kind, ns, <<>>, ""),
                         [pc |-> "done", err |-> r.err, out |-> r.out])
    /\ UNCHANGED <<now, objects, watchers, wch, nwrites, ret, kv, feed, rsc, sched, dpc, mgr, loops, resp, fac, pair, shut, unavailable, life, agent>>

\* etcdStore.Delete, the Get of the object to report
EtcdDeleteGet(p, kind, ns, name) ==
    /\ Begins(p, TRUE)
    /\ LET r == EtcdGetCall(kv, kind, ns, name)
           arg == NewObject(kind, ns, name, "")
       IN procs' = IF r.err # ErrNone
                   THEN Began(p, "Delete", arg, [pc |-> "done", err |-> r.err])
                   ELSE Began(p, "Delete", arg,
                              [pc |-> "del", out |-> r.out])
    /\ UNCHANGED <<now, objects, watchers, wch, nwrites, ret, kv, feed, rsc, sched, dpc, mgr, loops, resp, fac, pair, shut, unavailable, life, agent>>

\* etcdStore.Delete, the delete request: etcd reports a delete to its watches
\* only if the key was there (history: wid -1 marks a delete of nothing)
EtcdDeleteKey(p) ==
    /\ procs[p].pc = "del"
    /\ LET arg == procs[p].obj
           key == BuildKey(arg.kind, arg.ns, arg.name)
           got == CHOOSE o \in procs[p].out : TRUE
           there == key \in DOMAIN kv
           ev == KvEvent("DELETE", key, <<>>, FALSE, nwrites + 1, Ident(got))
       IN /\ kv' = MapDel(kv, key)
          /\ feed' = IF there THEN Publish(feed, ev) ELSE feed
          /\ nwrites' = IF there THEN nwrites + 1 ELSE nwrites
          /\ procs' = [procs EXCEPT ![p].obj = got,
                                    ![p].wid = IF there THEN nwrites + 1 ELSE -1,
                                    ![p].pc = "notify"]
    /\ UNCHANGED <<now, objects, watchers, wch, ret, rsc, sched, dpc, mgr, loops, resp, fac, pair, shut, unavailable, life, agent>>

\* etcdStore.Watch: the watcher struct, go startEtcdWatch, and the append to
\* s.watchers under the lock
EtcdWatchRegister(p, w, kind, ns) ==
    /\ Begins(p, FALSE)
    /\ ~wch[w].open
    /\ \A v \in Watchers : v < w => wch[v].open
    /\ wch' = [wch EXCEPT ![w] =
                  NewWatcher(kind, ns,
                      {Ident(o) : o \in {x \in EtcdLive(kv) :
                                            x.kind = kind /\ x.ns = ns}})]
    /\ feed' = [feed EXCEPT ![w] = [state |-> "started",
                                    prefix |-> BuildKey(kind, ns, <<>>), q |-> <<>>]]
    /\ watchers' = MapPut(watchers, WatchKey(kind, ns),
                          Append(WatchersOf(watchers, WatchKey(kind, ns)), w))
    /\ procs' = Began(p, "Watch", NewObject(kind, ns, <<>>, ""),
                      [pc |-> "list", w |-> w])
    /\ UNCHANGED <<now, objects, nwrites, ret, kv, rsc, sched, dpc, mgr, loops, resp, fac, pair, shut, unavailable, life, agent>>

\* etcdStore.Watch: the List of the existing objects
EtcdWatchList(p) ==
    /\ procs[p].pc = "list"
    /\ \E order \in Orders(EtcdListCall(kv, procs[p].obj.kind, procs[p].obj.ns).out) :
          procs' = [procs EXCEPT ![p].todo = order,
                                 ![p].pc = IF order = <<>> THEN "done" ELSE "snapshot"]
    /\ UNCHANGED <<now, objects, watchers, wch, nwrites, ret, kv, feed, rsc, sched, dpc, mgr, loops, resp, fac, pair, shut, unavailable, life, agent>>

\* etcdStore.Watch: one non-blocking send of the initial events
EtcdWatchSend(p) ==
    /\ procs[p].pc = "snapshot"
    /\ LET o == Head(procs[p].todo)
       IN wch' = [wch EXCEPT ![procs[p].w] = TrySend(@, Event("ADDED", o, 0, Ident(o)))]
    /\ procs' = [procs EXCEPT ![p].todo = Tail(@),
                              ![p].pc = IF Len(procs[p].todo) = 1 THEN "done"
                                        ELSE "snapshot"]
    /\ UNCHANGED <<now, objects, watchers, nwrites, ret, kv, feed, rsc, sched, dpc, mgr, loops, resp, fac, pair, shut, unavailable, life, agent>>

\* startEtcdWatch: s.client.Watch opens the etcd watch on the prefix
StartEtcdWatch(w) ==
    /\ feed[w].state = "started"
    /\ feed' = [feed EXCEPT ![w].state = "watching"]
    /\ UNCHANGED <<now, objects, watchers, wch, nwrites, ret, kv, procs, rsc, sched, dpc, mgr, loops, resp, fac, pair, shut, unavailable, life, agent>>

\* the WatchEvent startEtcdWatch makes of one etcd event for watcher w, as a
\* set: empty where the loop skips the event
FeedEvent(w, ev) ==
    LET parts == Split(TrimPrefix(ev.key, Prefix \o <<Slash>>))
    IN IF Len(parts) < 2 THEN {}
       ELSE IF parts[1] # Chars(w.kind) THEN {}
       ELSE IF w.kind \notin Decodable THEN {}
       ELSE IF ev.type = "PUT"
       THEN {Event(IF ev.isCreate THEN "ADDED" ELSE "MODIFIED",
                   Unmarshal(ev.value), ev.wid, ev.of)}
       ELSE {Event("DELETED", MinimalPod(parts), ev.wid, ev.of)}

\* startEtcdWatch: one event of the etcd watch channel, sent without blocking
EtcdWatchDeliver(w) ==
    /\ feed[w].state = "watching"
    /\ feed[w].q # <<>>
    /\ LET evs == FeedEvent(wch[w], Head(feed[w].q))
       IN wch' = IF evs = {} THEN wch
                 ELSE [wch EXCEPT ![w] = TrySend(@, CHOOSE e \in evs : TRUE)]
    /\ feed' = [feed EXCEPT ![w].q = Tail(@)]
    /\ UNCHANGED <<now, objects, watchers, nwrites, ret, kv, procs, rsc, sched, dpc, mgr, loops, resp, fac, pair, shut, unavailable, life, agent>>

----------------------------------------------------------------------------
(* ReplicaSet reconciler, on the in-memory store: one step per store call *)

\* the goroutines that run syncReplicaSets: 1 is the manager's syncLoop (syncAll
\* calls Sync), 2 the controller's own watchLoop
Passes == {1, 2}

\* api.ReplicaSet reduced to its kind, metadata, spec.replicas, the template's
\* metadata namespace and status
NewReplicaSet(ns, name, uid, replicas, tns) ==
    [kind |-> "ReplicaSet", ns |-> ns, name |-> name, uid |-> uid, rv |-> <<>>,
     replicas |-> replicas, template |-> [ns |-> tns, uid |-> <<>>, node |-> <<>>],
     status |-> [replicas |-> 0, ready |-> 0]]

ErrUnavailable == "store unavailable"
ErrListFailed == "failed to list"
ErrSyncFailed == "failed to sync"

\* the outcome r of a store call, or its failure while the store cannot be
\* reached
OrUnavailable(r) ==
    IF unavailable THEN Outcome(ErrUnavailable, objects, wch, {}) ELSE r

\* syncReplicaSets and syncDeployments, were they to return the error of an
\* object's sync
SyncReturnObjectErrors(listErr, failures) ==
    IF listErr # ErrNone THEN ErrListFailed
    ELSE IF failures # {} THEN ErrSyncFailed ELSE ErrNone

\* what syncReplicaSets and syncDeployments return: the error of the List of
\* the kind; the errors of the single objects (failures: the keys of those
\* whose sync met one) are printed
SyncReturn(listErr, failures) ==
    IF listErr # ErrNone THEN ErrListFailed ELSE ErrNone

\* an api.OwnerReference
OwnerRef(kind, name, uid) == [kind |-> kind, name |-> name, uid |-> uid]

\* podBelongsToReplicaSet
PodBelongsToReplicaSet(pod, rs) ==
    \E i \in DOMAIN pod.owner :
        pod.owner[i].kind = "ReplicaSet" /\ pod.owner[i].name = rs.name

\* the pod createPod builds at clock reading t
TemplatePod(rs, t) ==
    [kind |-> "Pod", ns |-> rs.template.ns,
     name |-> rs.name \o <<"-">> \o FormatInt(t),
     uid |-> rs.template.uid, rv |-> <<>>,
     owner |-> <<OwnerRef(rs.kind, rs.name, rs.uid)>>,
     node |-> rs.template.node, phase |-> "Pending"]

\* a goroutine between syncs; history: done notes the ReplicaSet last synced,
\* start notes how the last sync began (its number, was the store steady, the
\* writes of clients and of the controller until then)
\* history of the error handling: ret is what the last sync returned ("none":
\* none has returned), listErr the error of its List of the kind, listed, tried
\* and failed are the keys of the objects it listed, began to sync and met a
\* failure with
NoPass ==
    [pc |-> "idle", todo |-> <<>>, cur |-> <<>>, i |-> 0, n |-> 0,
     done |-> <<>>,
     start |-> [sync |-> 0, steady |-> FALSE, clients |-> 0, own |-> 0],
     ret |-> "none", listErr |-> ErrNone, listed |-> {}, tried |-> {}, failed |-> {}]

\* the controller with no sync under way: r.replicaSets is empty; history:
\* nsyncs counts its syncs, writes its successful writes
NoSync ==
    [states |-> <<>>, nsyncs |-> 0, writes |-> 0, pass |-> [p \in Passes |-> NoPass]]

\* the ReplicaSet that goroutine p is syncing
Syncing(p) == Head(rsc.pass[p].todo)

\* the pods that refer to R as owner: kind ReplicaSet, R's name and UID
OwnedBy(pods, R) ==
    {o \in pods : OwnerRef("ReplicaSet", R.name, R.uid) \in Range(o.owner)}

\* the pods in the store, of every namespace
LivePods(objs) == {objs[k] : k \in {x \in DOMAIN objs : x[1] = "Pod"}}

\* every stored ReplicaSet has spec.replicas owned pods
Steady(objs) ==
    \A k \in DOMAIN objs :
        k[1] = "ReplicaSet" =>
            Cardinality(OwnedBy(LivePods(objs), objs[k])) = objs[k].replicas

\* the syncs that have listed the pods and not yet ended
Listed ==
    {rsc.pass[q].start.sync :
        q \in {x \in Passes : rsc.pass[x].pc \in {"create", "delete", "status"}}}

\* syncReplicaSets: List the ReplicaSets of all namespaces
SyncReplicaSets(p) ==
    /\ rsc.pass[p].pc = "idle"
    /\ rsc.nsyncs < MaxSyncs
    /\ LET listing == OrUnavailable(MemListCall(objects, wch, "ReplicaSet", <<>>))
       IN IF listing.err # ErrNone
          THEN rsc' = [rsc EXCEPT
                          !.nsyncs = @ + 1,
                          !.pass[p].ret = SyncReturn(listing.err, {}),
                          !.pass[p].listErr = listing.err,
                          !.pass[p].listed = {},
                          !.pass[p].tried = {},
                          !.pass[p].failed = {}]
          ELSE \E order \in Orders(listing.out) :
             rsc' = [rsc EXCEPT
                     !.nsyncs = @ + 1,
                     !.pass[p].todo = order,
                     !.pass[p].done = <<>>,
                     !.pass[p].start = [sync |-> rsc.nsyncs + 1,
                                        steady |-> Steady(objects),
                                        clients |-> nwrites - rsc.writes,
                                        own |-> rsc.writes],
                     !.pass[p].ret = IF order = <<>> THEN SyncReturn(ErrNone, {})
                                     ELSE "none",
                     !.pass[p].listErr = ErrNone,
                     !.pass[p].listed = {ObjKey(order[i].ns, order[i].name) :
                                            i \in DOMAIN order},
                     !.pass[p].tried = {},
                     !.pass[p].failed = {},
                     !.pass[p].pc = IF order = <<>> THEN "idle" ELSE "sync"]
    /\ ret' = NoCall
    /\ UNCHANGED <<now, objects, watchers, wch, nwrites, kv, procs, feed, sched, dpc, mgr, loops, resp, fac, pair, shut, unavailable, life, agent>>

\* syncReplicaSet has returned err for the ReplicaSet of this key, c being the
\* controller thereafter: an error is printed; after the last ReplicaSet
\* syncReplicaSets returns
SyncEnds(p, c, key, err) ==
    LET failed == IF err = ErrNone THEN c.pass[p].failed
                  ELSE c.pass[p].failed \cup {key}
    IN [c EXCEPT !.pass[p].failed = failed,
                 !.pass[p].ret = IF c.pass[p].pc = "idle"
                                 THEN SyncReturn(ErrNone, failed) ELSE @]

\* the number of pods of the ReplicaSet's namespace that refer to it as owner
OwnedIn(objs, rs) ==
    Cardinality({o \in LiveIn(objs, "Pod", rs.ns) :
                    OwnerRef("ReplicaSet", rs.name, rs.uid) \in Range(o.owner)})

\* syncReplicaSet up to the List of ensurePods: the tracked state is fetched or
\* made, the pods of all namespaces are listed and those that belong are kept;
\* history: done notes the ReplicaSet, its owned pods and all pods at this
\* moment, the number of pods found missing or surplus, the syncs that had
\* listed already (and, when the sync has ended, the status it sent)
EnsurePodsList(p) ==
    /\ rsc.pass[p].pc = "sync"
    /\ LET rs == Syncing(p)
           key == ObjKey(rs.ns, rs.name)
           state == IF key \in DOMAIN rsc.states
                    THEN [rsc.states[key] EXCEPT
                             !.rs = IF @.rv # rs.rv THEN rs ELSE @]
                    ELSE [rs |-> rs, pods |-> <<>>]
           listing == OrUnavailable(MemListCall(objects, wch, "Pod", <<>>))
           belong == {o \in listing.out : PodBelongsToReplicaSet(o, rs)}
       IN IF listing.err # ErrNone
          THEN rsc' = SyncEnds(p, [rsc EXCEPT
                                     !.states = MapPut(@, key, state),
                                     !.pass[p].todo = Tail(@),
                                     !.pass[p].tried = @ \cup {key},
                                     !.pass[p].done = <<>>,
                                     !.pass[p].pc = IF Len(rsc.pass[p].todo) = 1
                                                    THEN "idle" ELSE "sync"],
                               key, listing.err)
          ELSE \E order \in Orders(belong) :
             LET n == IF Len(order) < rs.replicas THEN rs.replicas - Len(order)
                      ELSE Len(order) - rs.replicas
             IN rsc' = [rsc EXCEPT
                          !.states = MapPut(@, key, state),
                          !.pass[p].tried = @ \cup {key},
                          !.pass[p].cur = order,
                          !.pass[p].i = 0,
                          !.pass[p].n = n,
                          !.pass[p].done =
                              <<[rs |-> rs, c |-> OwnedIn(objects, rs),
                                 before |-> LivePods(objects), todo |-> n,
                                 after |-> Listed,
                                 over |-> FALSE, stored |-> FALSE,
                                 status |-> rs.status]>>,
                          !.pass[p].pc = IF Len(order) < rs.replicas THEN "create"
                                         ELSE IF Len(order) > rs.replicas THEN "delete"
                                         ELSE "status"]
    /\ ret' = NoCall
    /\ UNCHANGED <<now, objects, watchers, wch, nwrites, kv, procs, feed, sched, dpc, mgr, loops, resp, fac, pair, shut, unavailable, life, agent>>

\* the controller after one more turn of a loop of ensurePods in goroutine p
Looped(p, r) ==
    [rsc EXCEPT !.writes = IF r.err = ErrNone THEN @ + 1 ELSE @,
                !.pass[p].failed =
                    IF r.err = ErrNone THEN @
                    ELSE @ \cup {ObjKey(Syncing(p).ns, Syncing(p).name)},
                !.pass[p].i = @ + 1,
                !.pass[p].pc = IF rsc.pass[p].i + 1 = rsc.pass[p].n THEN "status"
                               ELSE @]

\* a store call made by the controller: its error is printed and dropped
RSApply(r) ==
    /\ objects' = r.objects
    /\ wch' = r.wch
    /\ nwrites' = IF r.err = ErrNone THEN nwrites + 1 ELSE nwrites
    /\ ret' = NoCall
    /\ UNCHANGED <<now, watchers, kv, procs, feed, sched, dpc, mgr, loops, resp, fac, pair, shut, unavailable, life, agent>>

\* ensurePods, one turn of the scale-up loop: createPod
CreatePod(p) ==
    /\ rsc.pass[p].pc = "create"
    /\ LET r == OrUnavailable(MemCreateCall(objects, watchers, wch, now, nwrites + 1,
                                            TemplatePod(Syncing(p), now)))
       IN RSApply(r) /\ rsc' = Looped(p, r)

\* ensurePods, one turn of the scale-down loop: deletePod
DeletePod(p) ==
    /\ rsc.pass[p].pc = "delete"
    /\ LET pod == rsc.pass[p].cur[rsc.pass[p].i + 1]
           r == OrUnavailable(MemDeleteCall(objects, watchers, wch, nwrites + 1,
                                            "Pod", pod.ns, pod.name))
       IN RSApply(r) /\ rsc' = Looped(p, r)

\* the end of ensurePods (state.Pods = currentPods) and updateReplicaSetStatus:
\* the counts are written to the ReplicaSet, which is stored with Update
UpdateReplicaSetStatus(p) ==
    /\ rsc.pass[p].pc = "status"
    /\ LET rs == Syncing(p)
           cur == rsc.pass[p].cur
           key == ObjKey(rs.ns, rs.name)
           ready == Cardinality({i \in DOMAIN cur : cur[i].phase = "Running"})
           counted == [rs EXCEPT !.status = [replicas |-> Len(cur), ready |-> ready]]
           r == OrUnavailable(MemUpdateCall(objects, watchers, wch, now,
                                            nwrites + 1, counted))
       IN /\ RSApply(r)
          /\ rsc' = SyncEnds(p, [rsc EXCEPT
                        !.writes = IF r.err = ErrNone THEN @ + 1 ELSE @,
                        !.states = [@ EXCEPT ![key].pods = cur],
                        !.pass[p].todo = Tail(@),
                        !.pass[p].cur = <<>>,
                        !.pass[p].i = 0,
                        !.pass[p].n = 0,
                        !.pass[p].done = <<[@[1] EXCEPT !.over = TRUE,
                                                        !.stored = (r.err = ErrNone),
                                                        !.status = counted.status]>>,
                        !.pass[p].pc = IF Len(rsc.pass[p].todo) = 1 THEN "idle"
                                       ELSE "sync"],
                              key, r.err)

----------------------------------------------------------------------------
(* Scheduler, on the in-memory store: one step per store call and per
   unsynchronized write to a pod that List returned *)

\* fmt.Sscanf(s, "%f", &result) for strings of digits and letters: the leading
\* digits are the value, what follows them is left unread; no digit is an error
ParseFloat(s) ==
    LET n == Cardinality({i \in DOMAIN s : \A j \in 1..i : s[j] \in {Digit(d) : d \in 0..9}})
    IN IF n = 0 THEN [val |-> 0, err |-> TRUE]
       ELSE [val |-> VersionValue(SubSeq(s, 1, n)), err |-> FALSE]

\* parseCPU, in thousandths of a core
ParseCPU(cpu) ==
    LET milli == ParseFloat(SubSeq(cpu, 1, Len(cpu) - 1))
        cores == ParseFloat(cpu)
    IN IF cpu = <<>> THEN [val |-> 0, err |-> FALSE]
       ELSE IF Len(cpu) > 1 /\ cpu[Len(cpu)] = "m" /\ ~milli.err
            THEN [val |-> milli.val, err |-> FALSE]
       ELSE [val |-> cores.val * 1000, err |-> cores.err]

Ki == 1024
Mi == 1048576
Gi == 1073741824

\* parseMemory, in bytes
ParseMemory(memory) ==
    LET suffix == SubSeq(memory, Len(memory) - 1, Len(memory))
        value == ParseFloat(SubSeq(memory, 1, Len(memory) - 2))
    IN IF memory = <<>> THEN [val |-> 0, err |-> FALSE]
       ELSE IF Len(memory) > 2 /\ value.err THEN [val |-> 0, err |-> TRUE]
       ELSE IF Len(memory) > 2 /\ suffix = <<"K", "i">>
            THEN [val |-> value.val * Ki, err |-> FALSE]
       ELSE IF Len(memory) > 2 /\ suffix = <<"M", "i">>
            THEN [val |-> value.val * Mi, err |-> FALSE]
       ELSE IF Len(memory) > 2 /\ suffix = <<"G", "i">>
            THEN [val |-> value.val * Gi, err |-> FALSE]
       ELSE ParseFloat(memory)

\* an api.ResourceList with both resources
Resources(cpu, memory) == ("cpu" :> cpu) @@ ("memory" :> memory)

\* api.Node reduced to its kind, metadata (name, namespace, resource version,
\* labels), status.conditions and status.allocatable; ref is the address of
\* the Go value
NewNode(name, labels, ready, allocatable) ==
    [kind |-> "Node", ns |-> NsNone, name |-> name, uid |-> <<>>, rv |-> <<>>,
     labels |-> labels,
     conditions |-> <<[type |-> "Ready", status |-> ready]>>,
     allocatable |-> allocatable, ref |-> 0]

\* api.Pod with the fields the scheduler reads and writes: spec.nodeName,
\* spec.nodeSelector, the containers' resource requests, status.phase and
\* status.conditions; ref is the address of the Go value
NewPod(name, selector, requests) ==
    [kind |-> "Pod", ns |-> NsDefault, name |-> name, uid |-> <<>>, rv |-> <<>>,
     owner |-> <<>>, node |-> <<>>, phase |-> "Pending", conditions |-> <<>>,
     selector |-> selector, containers |-> <<[requests |-> requests]>>, ref |-> 0]

\* the condition schedulePod appends
PodScheduledCondition ==
    [type |-> "PodScheduled", status |-> "True", reason |-> "Scheduled"]

\* isNodeReady
IsNodeReady(node) ==
    \E i \in DOMAIN node.conditions :
        node.conditions[i].type = "Ready" /\ node.conditions[i].status = "True"

\* matchesNodeSelector
MatchesNodeSelector(pod, node) ==
    \A k \in DOMAIN pod.selector :
        k \in DOMAIN node.labels /\ node.labels[k] = pod.selector[k]

RECURSIVE TotalCPU(_)
\* the totalCPU of hasSufficientResources
TotalCPU(containers) ==
    IF containers = <<>> THEN 0
    ELSE LET requests == Head(containers).requests
             cpu == ParseCPU(requests["cpu"])
         IN (IF "cpu" \in DOMAIN requests /\ ~cpu.err THEN cpu.val ELSE 0)
                + TotalCPU(Tail(containers))

RECURSIVE TotalMemory(_)
\* the totalMemory of hasSufficientResources
TotalMemory(containers) ==
    IF containers = <<>> THEN 0
    ELSE LET requests == Head(containers).requests
             memory == ParseMemory(requests["memory"])
         IN (IF "memory" \in DOMAIN requests /\ ~memory.err THEN memory.val ELSE 0)
                + TotalMemory(Tail(containers))

\* hasSufficientResources
HasSufficientResources(pod, node) ==
    LET totalCPU == TotalCPU(pod.containers)
        totalMemory == TotalMemory(pod.containers)
        availableCPU == ParseCPU(node.allocatable["cpu"])
        availableMemory == ParseMemory(node.allocatable["memory"])
    IN /\ ~(/\ totalCPU > 0
            /\ "cpu" \in DOMAIN node.allocatable
            /\ ~availableCPU.err
            /\ totalCPU > availableCPU.val)
       /\ ~(/\ totalMemory > 0
            /\ "memory" \in DOMAIN node.allocatable
            /\ ~availableMemory.err
            /\ totalMemory > availableMemory.val)

\* calculateNodeScore, in 1/128000 (exact when the memory is a whole number of
\* Mi, as every quantity of the model is)
CalculateNodeScore(node, scheduledPods) ==
    LET cpu == ParseCPU(node.allocatable["cpu"])
        memory == ParseMemory(node.allocatable["memory"])
        nodePodCount == Cardinality({k \in DOMAIN scheduledPods :
                                        scheduledPods[k] = node.name})
    IN (IF "cpu" \in DOMAIN node.allocatable /\ ~cpu.err THEN cpu.val * 128 ELSE 0)
         + (IF "memory" \in DOMAIN node.allocatable /\ ~memory.err
            THEN (memory.val \div Mi) * 125 ELSE 0)
         - nodePodCount * 128000

RECURSIVE BestOfLastWins(_, _, _, _)
\* the second pass with score >= bestScore: the last of the best nodes wins
BestOfLastWins(suitable, scheduledPods, bestScore, bestNode) ==
    IF suitable = <<>> THEN bestNode
    ELSE LET score == CalculateNodeScore(Head(suitable), scheduledPods)
         IN IF score >= bestScore
            THEN BestOfLastWins(Tail(suitable), scheduledPods, score, <<Head(suitable)>>)
            ELSE BestOfLastWins(Tail(suitable), scheduledPods, bestScore, bestNode)

RECURSIVE BestOf(_, _, _, _)
\* the second pass of findBestNode: the first node with the highest score
\* above 0; <<>> (a nil store.Object) when no score is above 0
BestOf(suitable, scheduledPods, bestScore, bestNode) ==
    IF suitable = <<>> THEN bestNode
    ELSE LET score == CalculateNodeScore(Head(suitable), scheduledPods)
         IN IF score > bestScore
            THEN BestOf(Tail(suitable), scheduledPods, score, <<Head(suitable)>>)
            ELSE BestOf(Tail(suitable), scheduledPods, bestScore, bestNode)

\* the first pass of findBestNode: the nodes that pass every filter
SuitableNodes(pod, nodes) ==
    LET Suitable(node) == /\ IsNodeReady(node)
                         /\ MatchesNodeSelector(pod, node)
                         /\ HasSufficientResources(pod, node)
    IN SelectSeq(nodes, Suitable)

\* findBestNode: err tells that no node is suitable, node is <<>> or <<node>>
FindBestNode(pod, nodes, scheduledPods) ==
    LET suitable == SuitableNodes(pod, nodes)
    IN IF suitable = <<>> THEN [err |-> TRUE, node |-> <<>>]
       ELSE [err |-> FALSE, node |-> BestOf(suitable, scheduledPods, 0, <<>>)]

\* the scheduler between two ticks; history: npasses counts its passes, writes
\* its successful writes, bound notes its last bind
NoPassYet ==
    [pc |-> "idle", pods |-> <<>>, nodes |-> <<>>, todo |-> <<>>,
     pod |-> <<>>, node |-> <<>>, fields |-> {}, scheduledPods |-> <<>>,
     npasses |-> 0, writes |-> 0, bound |-> <<>>]

\* what is behind the pointer o: a write through it changes the stored object
\* while the store still holds that Go value
Through(objs, o, new) ==
    LET key == StoreKey(o.kind, o.ns, o.name)
    IN IF key \in DOMAIN objs /\ objs[key].ref = o.ref THEN MapPut(objs, key, new)
       ELSE objs

\* processUnscheduledPods: List of the pods
ListPods ==
    /\ sched.pc = "idle"
    /\ sched.npasses < MaxPasses
    /\ \E order \in Orders(MemListCall(objects, wch, "Pod", <<>>).out) :
          sched' = [sched EXCEPT !.pc = "nodes", !.pods = order, !.npasses = @ + 1]
    /\ ret' = NoCall
    /\ UNCHANGED <<now, objects, watchers, wch, nwrites, kv, procs, feed, rsc, dpc, mgr, loops, resp, fac, pair, shut, unavailable, life, agent>>

\* processUnscheduledPods: List of the nodes, then the filter of the pods with
\* no node and phase Pending
ListNodes ==
    /\ sched.pc = "nodes"
    /\ \E order \in Orders(MemListCall(objects, wch, "Node", <<>>).out) :
          LET Unscheduled(pod) == pod.node = <<>> /\ pod.phase = "Pending"
              unscheduledPods == SelectSeq(sched.pods, Unscheduled)
          IN sched' = [sched EXCEPT
                          !.pc = IF unscheduledPods = <<>> THEN "idle" ELSE "find",
                          !.pods = <<>>,
                          !.nodes = IF unscheduledPods = <<>> THEN <<>> ELSE order,
                          !.todo = unscheduledPods]
    /\ ret' = NoCall
    /\ UNCHANGED <<now, objects, watchers, wch, nwrites, kv, procs, feed, rsc, dpc, mgr, loops, resp, fac, pair, shut, unavailable, life, agent>>

\* the scheduler after schedulePod has returned for the first pod of todo
NextPod(s) ==
    [s EXCEPT !.pc = IF Len(s.todo) = 1 THEN "idle" ELSE "find",
              !.todo = Tail(@),
              !.nodes = IF Len(s.todo) = 1 THEN <<>> ELSE @,
              !.pod = <<>>, !.node = <<>>, !.fields = {}]

\* schedulePod up to its first write: findBestNode; with no suitable node the
\* error is printed, with a nil best node node.GetName() panics
SchedulePodFind ==
    /\ sched.pc = "find"
    /\ LET pod == Head(sched.todo)
           found == FindBestNode(pod, sched.nodes, sched.scheduledPods)
       IN sched' = IF found.err THEN NextPod(sched)
                   ELSE IF found.node = <<>> THEN [sched EXCEPT !.pc = "panic"]
                   ELSE [sched EXCEPT !.pc = "assign", !.pod = <<pod>>,
                                      !.node = found.node,
                                      !.fields = {"nodeName", "phase", "conditions"}]
    /\ ret' = NoCall
    /\ UNCHANGED <<now, objects, watchers, wch, nwrites, kv, procs, feed, rsc, dpc, mgr, loops, resp, fac, pair, shut, unavailable, life, agent>>

\* the pod after the assignment to one of its fields in schedulePod
Assigned(pod, node, field) ==
    CASE field = "nodeName" -> [pod EXCEPT !.node = node.name]
      [] field = "phase" -> [pod EXCEPT !.phase = "Scheduled"]
      [] field = "conditions" ->
            [pod EXCEPT !.conditions = Append(@, PodScheduledCondition)]

\* schedulePod: one of the three assignments to the pod that List returned,
\* made outside the store's lock; a reader of the store may see them in any
\* order
SchedulePodAssign ==
    /\ sched.pc = "assign"
    /\ \E field \in sched.fields :
          LET pod == Assigned(sched.pod[1], sched.node[1], field)
          IN /\ objects' = Through(objects, sched.pod[1], pod)
             /\ sched' = [sched EXCEPT
                             !.pod = <<pod>>,
                             !.fields = @ \ {field},
                             !.pc = IF sched.fields = {field} THEN "update" ELSE @]
    /\ ret' = NoCall
    /\ UNCHANGED <<now, watchers, wch, nwrites, kv, procs, feed, rsc, dpc, mgr, loops, resp, fac, pair, shut, unavailable, life, agent>>

\* schedulePod: store.Update of the pod, then the entry in scheduledPods;
\* history: bound notes the pod written, the node chosen and whether that node
\* is Ready in the store now
SchedulePodUpdate ==
    /\ sched.pc = "update"
    /\ LET pod == sched.pod[1]
           node == sched.node[1]
           r == MemUpdateCall(objects, watchers, wch, now, nwrites + 1, pod)
           key == StoreKey("Node", node.ns, node.name)
           next == NextPod(sched)
       IN /\ objects' = r.objects
          /\ wch' = r.wch
          /\ nwrites' = IF r.err = ErrNone THEN nwrites + 1 ELSE nwrites
          /\ sched' = IF r.err # ErrNone THEN next
                      ELSE [next EXCEPT
                               !.writes = @ + 1,
                               !.scheduledPods =
                                   MapPut(@, ObjKey(pod.ns, pod.name), node.name),
                               !.bound =
                                   <<[pod |-> pod, node |-> node,
                                      ready |-> /\ key \in DOMAIN objects
                                                /\ IsNodeReady(objects[key])]>>]
    /\ ret' = NoCall
    /\ UNCHANGED <<now, watchers, kv, procs, feed, rsc, dpc, mgr, loops, resp, fac, pair, shut, unavailable, life, agent>>

----------------------------------------------------------------------------
(* Deployment reconciler, on the in-memory store: one step per store call *)

\* spec.selector.matchLabels of the deployments
AppLabels == "app" :> <<"w">>

\* api.Deployment reduced to its kind, metadata, spec (replicas, the selector's
\* labels, the template's metadata and the image of its first container) and
\* status
NewDeployment(name, uid, replicas, image) ==
    [kind |-> "Deployment", ns |-> NsDefault, name |-> name, uid |-> uid,
     rv |-> <<>>, replicas |-> replicas, selector |-> AppLabels,
     template |-> [ns |-> NsNone, uid |-> <<>>, node |-> <<>>, image |-> image],
     status |-> [replicas |-> 0, available |-> 0]]

\* the ReplicaSet ensureReplicaSet builds at clock reading t
OwnedReplicaSet(deployment, t) ==
    [kind |-> "ReplicaSet", ns |-> deployment.ns,
     name |-> deployment.name \o <<"-">> \o FormatInt(t),
     uid |-> <<>>, rv |-> <<>>, labels |-> deployment.selector,
     owner |-> <<OwnerRef(deployment.kind, deployment.name, deployment.uid)>>,
     replicas |-> deployment.replicas, selector |-> deployment.selector,
     template |-> deployment.template,
     status |-> [replicas |-> 0, available |-> 0]]

\* the pod DeploymentController.createPod builds at clock reading t
DeploymentPod(replicaSet, t) ==
    [kind |-> "Pod", ns |-> replicaSet.template.ns,
     name |-> replicaSet.name \o <<"-">> \o FormatInt(t),
     uid |-> replicaSet.template.uid, rv |-> <<>>,
     owner |-> <<OwnerRef(replicaSet.kind, replicaSet.name, replicaSet.uid)>>,
     node |-> replicaSet.template.node, phase |-> "Pending"]

\* a DeploymentController as NewDeploymentController makes it: d.deployments is
\* empty; history: nsyncs counts the syncs and writes the successful writes of
\* every controller so far, synced notes per deployment key how its syncs went
\* ret, listErr, listed, tried and failed as in NoPass
NoDeployments ==
    [deployments |-> <<>>, pc |-> "idle", todo |-> <<>>, cur |-> <<>>,
     i |-> 0, n |-> 0, nsyncs |-> 0, writes |-> 0, synced |-> <<>>,
     ret |-> "none", listErr |-> ErrNone, listed |-> {}, tried |-> {}, failed |-> {}]

\* the deployment being synced, its key and its tracked ReplicaSet
SyncingDeployment == Head(dpc.todo)
DeploymentKey(deployment) == ObjKey(deployment.ns, deployment.name)
TrackedReplicaSet == dpc.deployments[DeploymentKey(SyncingDeployment)].rs[1]

\* the stored ReplicaSets with an owner reference to the deployment (by UID)
OwnedReplicaSets(objs, deployment) ==
    {objs[k] : k \in {x \in DOMAIN objs :
                        /\ x[1] = "ReplicaSet"
                        /\ \E i \in DOMAIN objs[x].owner :
                              /\ objs[x].owner[i].kind = "Deployment"
                              /\ objs[x].owner[i].uid = deployment.uid}}

\* no sync of the deployment so far
NeverSynced == [n |-> 0, images |-> {}, deployment |-> <<>>,
                err |-> FALSE, clients |-> 0]

SyncedSoFar(c, key) == IF key \in DOMAIN c.synced THEN c.synced[key] ELSE NeverSynced

\* syncDeployments: List the deployments of all namespaces
SyncDeployments ==
    /\ dpc.pc = "idle"
    /\ dpc.nsyncs < MaxSyncs
    /\ LET listing == OrUnavailable(MemListCall(objects, wch, "Deployment", <<>>))
       IN IF listing.err # ErrNone
          THEN dpc' = [dpc EXCEPT !.nsyncs = @ + 1,
                                  !.ret = SyncReturn(listing.err, {}),
                                  !.listErr = listing.err,
                                  !.listed = {},
                                  !.tried = {},
                                  !.failed = {}]
          ELSE \E order \in Orders(listing.out) :
             dpc' = [dpc EXCEPT !.nsyncs = @ + 1,
                                !.todo = order,
                                !.ret = IF order = <<>> THEN SyncReturn(ErrNone, {})
                                        ELSE "none",
                                !.listErr = ErrNone,
                                !.listed = {DeploymentKey(order[i]) : i \in DOMAIN order},
                                !.tried = {},
                                !.failed = {},
                                !.pc = IF order = <<>> THEN "idle" ELSE "replicaset"]
    /\ ret' = NoCall
    /\ UNCHANGED <<now, objects, watchers, wch, nwrites, kv, procs, feed, rsc, sched, mgr, loops, resp, fac, pair, shut, unavailable, life, agent>>

\* syncDeployment returns (err: with an error) and the loop of syncDeployments
\* moves on; history: synced notes for this key the number of syncs, the
\* images they saw, the deployment as last listed, whether the last failed,
\* and the writes of clients until this moment
SyncDeploymentReturns(c, err) ==
    LET deployment == Head(c.todo)
        key == DeploymentKey(deployment)
        was == SyncedSoFar(c, key)
        failed == IF err THEN c.failed \cup {key} ELSE c.failed
    IN [c EXCEPT !.todo = Tail(@),
                 !.pc = IF Tail(c.todo) = <<>> THEN "idle" ELSE "replicaset",
                 !.failed = failed,
                 !.ret = IF Tail(c.todo) = <<>> THEN SyncReturn(ErrNone, failed)
                         ELSE @,
                 !.synced = MapPut(@, key,
                    [was EXCEPT !.n = @ + 1,
                                !.images = @ \cup {deployment.template.image},
                                !.deployment = <<deployment>>,
                                !.err = err,
                                !.clients = nwrites - dpc.writes])]

\* a store call made by the deployment controller
DeploymentApply(r) ==
    /\ objects' = r.objects
    /\ wch' = r.wch
    /\ nwrites' = IF r.err = ErrNone THEN nwrites + 1 ELSE nwrites
    /\ ret' = NoCall
    /\ UNCHANGED <<now, watchers, kv, procs, feed, rsc, sched, mgr, loops, resp, fac, pair, shut, unavailable, life, agent>>

\* syncDeployment up to the end of ensureReplicaSet: the tracked state is
\* fetched or made; a tracked ReplicaSet with the deployment's image is kept,
\* otherwise a new ReplicaSet is built and stored with Create
EnsureReplicaSet ==
    /\ dpc.pc = "replicaset"
    /\ LET deployment == SyncingDeployment
           key == DeploymentKey(deployment)
           state == IF key \in DOMAIN dpc.deployments
                    THEN [dpc.deployments[key] EXCEPT
                             !.deployment = IF @.rv # deployment.rv
                                            THEN deployment ELSE @]
                    ELSE [deployment |-> deployment, rs |-> <<>>]
           tracked == [dpc EXCEPT !.deployments = MapPut(@, key, state),
                                  !.tried = @ \cup {key},
                                  !.cur = <<>>]
       IN IF /\ state.rs # <<>>
             /\ state.rs[1].template.image = deployment.template.image
          THEN /\ dpc' = [tracked EXCEPT !.pc = "pods"]
               /\ ret' = NoCall
               /\ UNCHANGED <<now, objects, watchers, wch, nwrites, kv, procs,
                              feed, rsc, sched, mgr, loops, resp, fac, pair, shut, unavailable, life, agent>>
          ELSE LET replicaSet == OwnedReplicaSet(deployment, now)
                   r == OrUnavailable(MemCreateCall(objects, watchers, wch, now,
                                                    nwrites + 1, replicaSet))
                   stored == [replicaSet EXCEPT !.rv = FormatInt(now)]
               IN /\ DeploymentApply(r)
                  /\ dpc' = IF r.err # ErrNone
                            THEN SyncDeploymentReturns(tracked, TRUE)
                            ELSE [tracked EXCEPT
                                    !.deployments[key].rs = <<stored>>,
                                    !.writes = @ + 1,
                                    !.pc = "pods"]

\* ensurePods up to its scale-up and scale-down loops: the pods of all
\* namespaces are listed and those that belong to the tracked ReplicaSet kept
DeploymentEnsurePods ==
    /\ dpc.pc = "pods"
    /\ LET desired == SyncingDeployment.replicas
           listing == OrUnavailable(MemListCall(objects, wch, "Pod", <<>>))
           belong == {o \in listing.out :
                         PodBelongsToReplicaSet(o, TrackedReplicaSet)}
       IN IF listing.err # ErrNone
          THEN dpc' = SyncDeploymentReturns(dpc, TRUE)
          ELSE \E order \in Orders(belong) :
             dpc' = [dpc EXCEPT
                        !.cur = order,
                        !.i = 0,
                        !.n = IF Len(order) < desired THEN desired - Len(order)
                              ELSE Len(order) - desired,
                        !.pc = IF Len(order) < desired THEN "create"
                               ELSE IF Len(order) > desired THEN "delete"
                               ELSE "status"]
    /\ ret' = NoCall
    /\ UNCHANGED <<now, objects, watchers, wch, nwrites, kv, procs, feed, rsc, sched, mgr, loops, resp, fac, pair, shut, unavailable, life, agent>>

\* the deployment controller after one more turn of a loop of ensurePods
DeploymentLooped(r) ==
    [dpc EXCEPT !.writes = IF r.err = ErrNone THEN @ + 1 ELSE @,
                !.failed = IF r.err = ErrNone THEN @
                           ELSE @ \cup {DeploymentKey(SyncingDeployment)},
                !.i = @ + 1,
                !.pc = IF dpc.i + 1 = dpc.n THEN "status" ELSE @]

\* ensurePods, one turn of the scale-up loop: createPod
DeploymentCreatePod ==
    /\ dpc.pc = "create"
    /\ LET r == OrUnavailable(MemCreateCall(objects, watchers, wch, now, nwrites + 1,
                                            DeploymentPod(TrackedReplicaSet, now)))
       IN DeploymentApply(r) /\ dpc' = DeploymentLooped(r)

\* ensurePods, one turn of the scale-down loop: deletePod
DeploymentDeletePod ==
    /\ dpc.pc = "delete"
    /\ LET pod == dpc.cur[dpc.i + 1]
           r == OrUnavailable(MemDeleteCall(objects, watchers, wch, nwrites + 1,
                                            "Pod", pod.ns, pod.name))
       IN DeploymentApply(r) /\ dpc' = DeploymentLooped(r)

\* the end of ensurePods: the number of pods found is written to the status of
\* the tracked ReplicaSet, which is stored with Update; syncDeployment returns
DeploymentUpdateStatus ==
    /\ dpc.pc = "status"
    /\ LET key == DeploymentKey(SyncingDeployment)
           counted == [TrackedReplicaSet EXCEPT !.status.replicas = Len(dpc.cur)]
           r == OrUnavailable(MemUpdateCall(objects, watchers, wch, now,
                                            nwrites + 1, counted))
           stored == IF r.err = ErrNone THEN [counted EXCEPT !.rv = FormatInt(now)]
                     ELSE counted
           written == [dpc EXCEPT !.deployments[key].rs = <<stored>>,
                                  !.writes = IF r.err = ErrNone THEN @ + 1 ELSE @]
       IN /\ DeploymentApply(r)
          /\ dpc' = SyncDeploymentReturns(written, r.err # ErrNone)

\* NewDeploymentController on the same store, the controller before it having
\* stopped: nothing is tracked
NewDeploymentController ==
    /\ dpc.pc = "idle"
    /\ dpc.deployments # <<>>
    /\ dpc' = [dpc EXCEPT !.deployments = <<>>]
    /\ ret' = NoCall
    /\ UNCHANGED <<now, objects, watchers, wch, nwrites, kv, procs, feed, rsc, sched, mgr, loops, resp, fac, pair, shut, unavailable, life, agent>>

----------------------------------------------------------------------------
(* Controller manager: Start, Stop and the syncLoop goroutines *)

\* the names of the controllers that may be registered
Controllers == {"replicaset-controller", "deployment-controller"}

\* the syncLoop goroutines, one per successful Start
Goroutines == 1..MaxStarts

\* a controller as NewReplicaSetController or NewDeploymentController makes it
NewController == [running |-> FALSE, stopCh |-> "open"]

\* no syncLoop goroutine; history: snapshot notes the controllers registered
\* when the current tick began, synced those whose Sync it has called, failed
\* whether one of these calls returned an error
NoLoop ==
    [pc |-> "none", todo |-> <<>>, snapshot |-> {}, synced |-> <<>>,
     failed |-> FALSE]

\* NewManager; history: nstarts counts the successful Starts, last notes the
\* last Start or Stop and whether it returned an error
NewManager ==
    [controllers |-> <<>>, running |-> FALSE, stopCh |-> "open",
     cancelled |-> FALSE, panic |-> FALSE, nstarts |-> 0,
     loop |-> [g \in Goroutines |-> NoLoop],
     last |-> [op |-> "none", err |-> FALSE]]

\* a step of the manager or of one of its goroutines
ManagerStep(m) ==
    /\ ~mgr.panic
    /\ mgr' = m
    /\ UNCHANGED <<now, objects, watchers, wch, nwrites, ret, kv, procs, feed,
                   rsc, sched, dpc, loops, resp, fac, pair, shut, unavailable, life, agent>>

\* Manager.AddController, of a controller just made
AddController(c) ==
    /\ c \notin DOMAIN mgr.controllers
    /\ ManagerStep([mgr EXCEPT !.controllers = MapPut(@, c, NewController)])

RECURSIVE StartAll(_, _)
\* the loop of Manager.Start over m.controllers, visited in the given order:
\* controller.Start fails on a running controller and the loop ends there
StartAll(ctrls, order) ==
    IF order = <<>> THEN [controllers |-> ctrls, err |-> FALSE]
    ELSE IF ctrls[Head(order)].running THEN [controllers |-> ctrls, err |-> TRUE]
    ELSE StartAll([ctrls EXCEPT ![Head(order)].running = TRUE], Tail(order))

RECURSIVE StopAll(_, _)
\* the loop of Manager.Stop over m.controllers, visited in the given order:
\* controller.Stop closes stopCh of a running controller, and closing a closed
\* channel panics
StopAll(ctrls, order) ==
    IF order = <<>> THEN [controllers |-> ctrls, panic |-> FALSE]
    ELSE IF ~ctrls[Head(order)].running THEN StopAll(ctrls, Tail(order))
    ELSE IF ctrls[Head(order)].stopCh = "closed"
         THEN [controllers |-> ctrls, panic |-> TRUE]
    ELSE StopAll([ctrls EXCEPT ![Head(order)] =
                                   [running |-> FALSE, stopCh |-> "closed"]],
                 Tail(order))

\* Manager.Start
ManagerStart ==
    \E order \in Orders(DOMAIN mgr.controllers) :
        LET r == StartAll(mgr.controllers, order)
            noted == [mgr EXCEPT !.last = [op |-> "Start", err |-> TRUE]]
        IN IF mgr.running THEN ManagerStep(noted)
           ELSE IF r.err
                THEN ManagerStep([noted EXCEPT !.controllers = r.controllers])
           ELSE /\ mgr.nstarts < MaxStarts
                /\ ManagerStep([noted EXCEPT
                                   !.controllers = r.controllers,
                                   !.loop[mgr.nstarts + 1].pc = "select",
                                   !.nstarts = @ + 1,
                                   !.running = TRUE,
                                   !.last.err = FALSE])

\* Manager.Stop
ManagerStop ==
    \E order \in Orders(DOMAIN mgr.controllers) :
        LET r == StopAll(mgr.controllers, order)
            noted == [mgr EXCEPT !.last = [op |-> "Stop", err |-> FALSE]]
        IN IF ~mgr.running THEN ManagerStep(noted)
           ELSE IF r.panic \/ mgr.stopCh = "closed"
                THEN ManagerStep([noted EXCEPT !.controllers = r.controllers,
                                               !.panic = TRUE])
           ELSE ManagerStep([noted EXCEPT !.controllers = r.controllers,
                                          !.stopCh = "closed",
                                          !.running = FALSE])

\* the context given to Start is cancelled
CancelContext ==
    /\ ~mgr.cancelled
    /\ ManagerStep([mgr EXCEPT !.cancelled = TRUE])

\* syncLoop at its select: the case ctx.Done() or the case m.stopCh is taken
SyncLoopReturns(g) ==
    /\ mgr.loop[g].pc = "select"
    /\ mgr.cancelled \/ mgr.stopCh = "closed"
    /\ ManagerStep([mgr EXCEPT !.loop[g].pc = "returned"])

\* syncLoop at its select: the case ticker.C is taken; the context is checked
\* again, then syncAll copies the controllers in the order of the map
SyncLoopTick(g) ==
    /\ mgr.loop[g].pc = "select"
    /\ IF mgr.cancelled
       THEN ManagerStep([mgr EXCEPT !.loop[g].pc = "returned"])
       ELSE \E order \in Orders(DOMAIN mgr.controllers) :
               ManagerStep([mgr EXCEPT
                   !.loop[g].todo = order,
                   !.loop[g].snapshot = DOMAIN mgr.controllers,
                   !.loop[g].synced = <<>>,
                   !.loop[g].failed = FALSE,
                   !.loop[g].pc = IF order = <<>> THEN "select" ELSE "sync"])

\* syncAll, one turn of its loop: controller.Sync, whose error is printed
SyncAllOne(g) ==
    /\ mgr.loop[g].pc = "sync"
    /\ \E err \in BOOLEAN :
          ManagerStep([mgr EXCEPT
              !.loop[g].todo = Tail(@),
              !.loop[g].synced = Append(@, Head(mgr.loop[g].todo)),
              !.loop[g].failed = @ \/ err,
              !.loop[g].pc = IF Tail(mgr.loop[g].todo) = <<>> THEN "select"
                             ELSE "sync"])

----------------------------------------------------------------------------
(* Background loops and their shutdown *)

\* the components that start background goroutines
Components ==
    {"Manager", "ReplicaSetController", "Scheduler", "Agent", "memoryStore",
     "etcdStore"}

\* the goroutines each component starts
LoopsOf(c) ==
    CASE c = "Manager" -> {"syncLoop"}
      [] c = "ReplicaSetController" -> {"watchLoop"}
      [] c = "DeploymentController" -> {"watchLoop"}
      [] c = "Scheduler" -> {"schedulingLoop"}
      [] c = "Agent" -> {"podSyncLoop", "heartbeatLoop", "statusReportingLoop"}
      [] c = "memoryStore" -> {"gcLoop"}
      [] c = "etcdStore" -> {"keepAliveLease"}

Loops == UNION {LoopsOf(c) : c \in Components}

OwnerOf(l) == CHOOSE c \in Components : l \in LoopsOf(c)

\* the loops written as for { select { ctx.Done(), stopCh, ticker.C } }
SelectLoops == Loops \ {"gcLoop", "keepAliveLease"}

\* the loops that check the context once more after the ticker has fired
RecheckLoops == {"syncLoop"}

\* no component started: the root context is live, no Stop or Close has been
\* called; history: after notes the loops that took a turn after shutdown with
\* no returning case ready
NoLoops ==
    [cancelled |-> FALSE, stopped |-> {},
     pc |-> [l \in Loops |-> "none"], after |-> {}]

\* the shutdown of the loop's component has begun: the root context is
\* cancelled, or Stop or Close of the component has been called
Down(l) == loops.cancelled \/ OwnerOf(l) \in loops.stopped

\* a case of the loop's select other than the ticker's is ready
ReturnReady(l) == l \in SelectLoops /\ Down(l)

LoopStep(next) ==
    /\ loops' = next
    /\ UNCHANGED <<now, objects, watchers, wch, nwrites, ret, kv, procs, feed,
                   rsc, sched, dpc, mgr, resp, fac, pair, shut, unavailable, life, agent>>

\* Start of a component (NewMemoryStore, NewEtcdStore for the stores): its
\* goroutines are started
StartComponent(c) ==
    /\ c \notin loops.stopped
    /\ \A l \in LoopsOf(c) : loops.pc[l] = "none"
    /\ LoopStep([loops EXCEPT !.pc = [l \in Loops |->
                    IF l \notin LoopsOf(c) THEN @[l]
                    ELSE IF l = "keepAliveLease" THEN "start" ELSE "select"]])

\* Stop of a running component, Close of a store
StopComponent(c) ==
    /\ c \notin loops.stopped
    /\ \A l \in LoopsOf(c) : loops.pc[l] # "none"
    /\ LoopStep([loops EXCEPT !.stopped = @ \cup {c}])

\* the root context is cancelled
CancelRoot ==
    /\ ~loops.cancelled
    /\ LoopStep([loops EXCEPT !.cancelled = TRUE])

\* a loop at its select takes the case ctx.Done() or the case stopCh
LoopReturns(l) ==
    /\ loops.pc[l] = "select"
    /\ ReturnReady(l)
    /\ LoopStep([loops EXCEPT !.pc[l] = "returned"])

\* a loop takes its ticker's case (gcLoop: the next value of range ticker.C)
\* and does its work, unless it checks the context again and finds it done
LoopTurn(l) ==
    /\ l # "keepAliveLease"
    /\ loops.pc[l] = "select"
    /\ IF l \in RecheckLoops /\ loops.cancelled
       THEN LoopStep([loops EXCEPT !.pc[l] = "returned"])
       ELSE LoopStep([loops EXCEPT
                         !.after = IF Down(l) /\ ~ReturnReady(l) THEN @ \cup {l}
                                   ELSE @])

\* keepAliveLease, its first statement: client.KeepAlive fails (it returns) or
\* gives the channel; it fails when the client is closed
KeepAliveLeaseStart ==
    /\ loops.pc["keepAliveLease"] = "start"
    /\ \E err \in IF "etcdStore" \in loops.stopped THEN {TRUE} ELSE BOOLEAN :
          LoopStep([loops EXCEPT
              !.pc["keepAliveLease"] = IF err THEN "returned" ELSE "select"])

\* keepAliveLease, one turn: a response arrives, or the channel gives nil (the
\* lease has expired, or the client is closed and so is the channel); on nil a
\* lease is granted anew and kept alive, and only an error of that KeepAlive
\* returns; Grant fails once the client is closed, and the loop turns again
KeepAliveLeaseTurn ==
    /\ loops.pc["keepAliveLease"] = "select"
    /\ \E got \in IF "etcdStore" \in loops.stopped THEN {"nil"}
                   ELSE {"response", "nil"} :
       \E grant \in IF "etcdStore" \in loops.stopped THEN {"error"}
                     ELSE {"error", "granted"} :
       \E err \in BOOLEAN :
          LoopStep([loops EXCEPT
              !.pc["keepAliveLease"] =
                  IF got = "nil" /\ grant = "granted" /\ err THEN "returned"
                  ELSE @,
              !.after = IF Down("keepAliveLease")
                        THEN @ \cup {"keepAliveLease"} ELSE @])

----------------------------------------------------------------------------
(* API server: the handler of POST /namespaces/{namespace}/pods *)

StatusOK == 200
StatusCreated == 201
StatusBadRequest == 400
StatusInternalServerError == 500

\* an api.Container reduced to its name and image
Container(name, image) == [name |-> name, image |-> image]

\* the api.Pod that the JSON body of a request decodes to: the fields of
\* NewObject and spec.containers
RequestPod(name, containers) ==
    [kind |-> <<>>, ns |-> <<>>, name |-> name, uid |-> <<>>, rv |-> <<>>,
     owner |-> <<>>, node |-> <<>>, phase |-> <<>>, containers |-> containers]

\* a body that json Decode rejects
Malformed == [decodable |-> FALSE]

\* no request served yet
NoResponse == [status |-> 0, pod |-> <<>>]

\* generateUID at clock reading t
GenerateUID(t) == FormatInt(t)

\* Server.createPod: the body is decoded, the metadata set, the pod created in
\* the store and returned
ServerCreatePod(namespace, body) ==
    IF body = Malformed
    THEN /\ resp' = [status |-> StatusBadRequest, pod |-> <<>>]
         /\ UNCHANGED <<now, objects, watchers, wch, nwrites, ret, kv, procs,
                        feed, rsc, sched, dpc, mgr, loops, fac, pair, shut, unavailable, life, agent>>
    ELSE LET pod == [body EXCEPT !.kind = "Pod", !.ns = namespace,
                                 !.uid = GenerateUID(now), !.phase = "Pending"]
             r == MemCreateCall(objects, watchers, wch, now, nwrites + 1, pod)
         IN /\ r.err = ErrNone
                  => nwrites - rsc.writes - sched.writes - dpc.writes < MaxWrites
            /\ objects' = r.objects
            /\ wch' = r.wch
            /\ nwrites' = IF r.err = ErrNone THEN nwrites + 1 ELSE nwrites
            /\ ret' = Call("Create", r.err, <<>>, StoredVersion(r.objects,
                                       StoreKey(pod.kind, pod.ns, pod.name)))
            /\ UNCHANGED <<now, watchers, kv, procs, feed, rsc, sched, dpc, mgr,
                           loops, fac, pair, shut, unavailable, life, agent>>
            /\ resp' = IF r.err # ErrNone
                       THEN [status |-> StatusInternalServerError, pod |-> <<>>]
                       ELSE [status |-> StatusCreated,
                             pod |-> <<[pod EXCEPT !.rv = FormatInt(now)]>>]

\* Server.listAllPods, the handler of GET /api/v1alpha1/pods: the pods that
\* List("Pod", "default") returns are the items of the PodList
ServerListAllPods ==
    LET r == MemListCall(objects, wch, "Pod", NsDefault)
    IN /\ resp' = IF r.err # ErrNone
                  THEN [status |-> StatusInternalServerError, pod |-> <<>>, items |-> {}]
                  ELSE [status |-> StatusOK, pod |-> <<>>, items |-> r.out]
       /\ ret' = NoCall
       /\ UNCHANGED <<now, objects, watchers, wch, nwrites, kv, procs, feed, rsc,
                      sched, dpc, mgr, loops, fac, pair, shut, unavailable, life, agent>>

----------------------------------------------------------------------------
(* Store factory *)

StoreTypeMemory == "memory"
StoreTypeEtcd == "etcd"

ErrUnknownStoreType == "unknown store type"
ErrEtcdClient == "failed to create etcd client"
ErrEtcdConnect == "failed to connect to etcd"

DefaultEndpoints == <<"localhost:2379">>

\* a StoreConfig reduced to its type and endpoints
StoreConfig(type, endpoints) == [type |-> type, endpoints |-> endpoints]

\* what a constructor returns: a store ("none": nil) and an error
Built(store, err) == [store |-> store, err |-> err]

\* NewEtcdStore, etcd answering the connection test or not: the client is not
\* made without endpoints, and the store is returned only when the test passes
NewEtcdStore(endpoints, reachable) ==
    IF endpoints = <<>> THEN Built("none", ErrEtcdClient)
    ELSE IF ~reachable THEN Built("none", ErrEtcdConnect)
    ELSE Built("etcdStore", ErrNone)

\* NewStore
NewStore(config, reachable) ==
    IF config.type = StoreTypeMemory THEN Built("memoryStore", ErrNone)
    ELSE IF config.type = StoreTypeEtcd
         THEN NewEtcdStore(IF config.endpoints = <<>> THEN DefaultEndpoints
                           ELSE config.endpoints, reachable)
    ELSE Built("none", ErrUnknownStoreType)

\* NewStoreWithFallback, were it to pass every configuration on to NewStore
NewStoreWithoutFallback(config, reachable) == NewStore(config, reachable)

\* NewStoreWithFallback
NewStoreWithFallback(config, reachable) ==
    IF config.type = StoreTypeEtcd
    THEN IF NewEtcdStore(config.endpoints, reachable).err # ErrNone
         THEN Built("memoryStore", ErrNone)
         ELSE NewEtcdStore(config.endpoints, reachable)
    ELSE NewStore(config, reachable)

\* no store constructed yet, etcd not reachable; history: call and config note
\* the factory called and its argument, connected whether etcd was reachable
\* at that moment
NoStore ==
    [call |-> "none", config |-> <<>>, connected |-> FALSE,
     store |-> "none", err |-> ErrNone, reachable |-> FALSE]

FactoryStep(next) ==
    /\ fac' = next
    /\ UNCHANGED <<now, objects, watchers, wch, nwrites, ret, kv, procs, feed,
                   rsc, sched, dpc, mgr, loops, resp, pair, shut, unavailable, life, agent>>

\* the program constructs its store, with or without fallback
Construct(call, config) ==
    /\ fac.call = "none"
    /\ LET r == IF call = "NewStoreWithFallback"
                THEN NewStoreWithFallback(config, fac.reachable)
                ELSE NewStore(config, fac.reachable)
       IN FactoryStep([fac EXCEPT !.call = call, !.config = config,
                                  !.connected = fac.reachable,
                                  !.store = r.store, !.err = r.err])

\* etcd becomes reachable or unreachable
Reach ==
    FactoryStep([fac EXCEPT !.reachable = ~@])

----------------------------------------------------------------------------
(* Both backends behind the Store interface: a caller makes each call on a  *)
(* memoryStore and on an etcdStore, one call at a time and with no watcher  *)

\* what a Store call answers: its error and the objects it returns
Answer(err, out) == [err |-> err, out |-> out]

\* what a call on the etcd store answers and the key-value state it leaves
EtcdOutcome(err, store, out) == [err |-> err, kv |-> store, out |-> out]

\* etcdStore.Create with no other caller: the Get of the key, then the Put
EtcdCreateCall(store, t, obj) ==
    LET key == BuildKey(obj.kind, obj.ns, obj.name)
        stored == [obj EXCEPT !.rv = FormatInt(t)]
    IN IF key \in DOMAIN store THEN EtcdOutcome(ErrAlreadyExists, store, {})
       ELSE EtcdOutcome(ErrNone, MapPut(store, key, Marshal(stored)), {})

\* etcdStore.Update with no other caller
EtcdUpdateCall(store, t, obj) ==
    LET key == BuildKey(obj.kind, obj.ns, obj.name)
        stored == [obj EXCEPT !.rv = FormatInt(t)]
    IN IF key \notin DOMAIN store THEN EtcdOutcome(ErrNotFound, store, {})
       ELSE EtcdOutcome(ErrNone, MapPut(store, key, Marshal(stored)), {})

\* etcdStore.Delete with no other caller: s.Get, whose error it returns, then
\* the delete request
EtcdDeleteCall(store, kind, ns, name) ==
    LET got == EtcdGetCall(store, kind, ns, name)
    IN IF got.err # ErrNone THEN EtcdOutcome(got.err, store, {})
       ELSE EtcdOutcome(ErrNone, MapDel(store, BuildKey(kind, ns, name)), {})

\* no call made yet
NoPair == [op |-> "none", mem |-> Answer(ErrNone, {}), etcd |-> Answer(ErrNone, {})]

\* one call made on both stores: m is the outcome on the memoryStore, e the
\* outcome on the etcdStore
BothApply(op, m, e) ==
    /\ op \in {"Create", "Update", "Delete"} => nwrites < MaxWrites
    /\ objects' = m.objects
    /\ kv' = e.kv
    /\ nwrites' = IF op \in {"Create", "Update", "Delete"} THEN nwrites + 1 ELSE nwrites
    /\ pair' = [op |-> op, mem |-> Answer(m.err, m.out), etcd |-> Answer(e.err, e.out)]
    /\ UNCHANGED <<now, watchers, wch, ret, procs, feed, rsc, sched, dpc, mgr, loops,
                   resp, fac, shut, unavailable, life, agent>>

BothCreate(obj) ==
    BothApply("Create", MemCreateCall(objects, watchers, wch, now, nwrites + 1, obj),
              EtcdCreateCall(kv, now, obj))

BothGet(kind, ns, name) ==
    LET e == EtcdGetCall(kv, kind, ns, name)
    IN BothApply("Get", MemGetCall(objects, wch, kind, ns, name),
                 EtcdOutcome(e.err, kv, e.out))

BothList(kind, ns) ==
    LET e == EtcdListCall(kv, kind, ns)
    IN BothApply("List", MemListCall(objects, wch, kind, ns),
                 EtcdOutcome(e.err, kv, e.out))

BothUpdate(obj) ==
    BothApply("Update", MemUpdateCall(objects, watchers, wch, now, nwrites + 1, obj),
              EtcdUpdateCall(kv, now, obj))

BothDelete(kind, ns, name) ==
    BothApply("Delete", MemDeleteCall(objects, watchers, wch, nwrites + 1, kind, ns, name),
              EtcdDeleteCall(kv, kind, ns, name))

----------------------------------------------------------------------------
(* Watch shutdown on either backend: the consumer's close of WatchResult.Stop, *)
(* the cleanup goroutine of Watch, Close and gc. Every step here runs under    *)
(* the store's lock or is a single channel operation, so a call is one step.   *)

PanicNone == "none"
PanicCloseOfClosed == "close of closed channel"
PanicSendOnClosed == "send on closed channel"

\* a watcher's stop channel and its cleanup goroutine: stop is "none" before
\* Watch, then "open" or "closed"; events likewise; closed is the flag
\* w.closed of the memoryStore's watcher; cleanup is "none", "waiting" (at
\* <-w.stop) or "done"; history: stopped tells that the consumer has closed Stop
NoStop ==
    [stop |-> "none", events |-> "none", closed |-> FALSE, cleanup |-> "none",
     stopped |-> FALSE]

NoShutdown ==
    [backend |-> "none", w |-> [w \in Watchers |-> NoStop], panic |-> PanicNone,
     ncloses |-> 0]

\* the program is alive and has a store
Alive == shut.panic = PanicNone /\ shut.backend # "none"

\* close(ch) on the channels of s: a panic if one of them is closed already
CloseStops(s, ws) ==
    IF \E w \in ws : s.w[w].stop = "closed"
    THEN [s EXCEPT !.panic = PanicCloseOfClosed]
    ELSE [s EXCEPT !.w = [w \in Watchers |->
                              IF w \in ws THEN [s.w[w] EXCEPT !.stop = "closed"]
                              ELSE s.w[w]]]

\* a send on w.events by notifyWatchers or the snapshot loop: a panic if the
\* channel of one of the targets is closed
SendOn(s, ws) ==
    IF \E w \in ws : s.w[w].events = "closed"
    THEN [s EXCEPT !.panic = PanicSendOnClosed] ELSE s

\* every watcher in s.watchers
Registered(ws) == UNION {Range(ws[k]) : k \in DOMAIN ws}

\* removeWatcher: the watcher leaves its list, an empty list leaves the map
RemoveWatcher(ws, key, w) ==
    LET list == SelectSeq(WatchersOf(ws, key), LAMBDA x : x # w)
    IN IF list = <<>> THEN MapDel(ws, key) ELSE MapPut(ws, key, list)

\* NewMemoryStore or NewEtcdStore
NewBackend(b) ==
    /\ shut.backend = "none"
    /\ shut' = [shut EXCEPT !.backend = b]
    /\ UNCHANGED <<now, objects, watchers, wch, nwrites, ret, kv, procs, feed, rsc,
                   sched, dpc, mgr, loops, resp, fac, pair, unavailable, life, agent>>

\* the objects Watch sends as initial events: those in the map of the
\* memoryStore; those List returns on the etcdStore, none once the client is
\* closed (List fails and the loop is skipped)
Snapshot(kind, ns) ==
    IF shut.backend = "memory" THEN MemWatchInitial(objects, kind, ns)
    ELSE IF shut.ncloses > 0 THEN {}
    ELSE EtcdListCall(kv, kind, ns).out

\* Watch on the store: the watcher with its two channels, its registration,
\* the initial events and the cleanup goroutine
ShutWatch(w, kind, ns) ==
    /\ Alive
    /\ ~wch[w].open
    /\ \A v \in Watchers : v < w => wch[v].open
    /\ \E order \in Orders(Snapshot(kind, ns)) :
          wch' = [wch EXCEPT ![w] = SendAll(NewWatcher(kind, ns, {}), order, 1)]
    /\ watchers' = MapPut(watchers, WatchKey(kind, ns),
                          Append(WatchersOf(watchers, WatchKey(kind, ns)), w))
    /\ shut' = [shut EXCEPT !.w[w] = [stop |-> "open", events |-> "open",
                                      closed |-> FALSE, cleanup |-> "waiting",
                                      stopped |-> FALSE]]
    /\ UNCHANGED <<now, objects, nwrites, ret, kv, procs, feed, rsc, sched, dpc, mgr,
                   loops, resp, fac, pair, unavailable, life, agent>>

\* Create on the store, with its notifyWatchers; on the etcdStore every
\* request fails once the client is closed
ShutCreate(obj) ==
    /\ Alive
    /\ nwrites < MaxWrites
    /\ LET m == MemCreateCall(objects, watchers, wch, now, nwrites + 1, obj)
           e == EtcdCreateCall(kv, now, obj)
           ok == IF shut.backend = "memory" THEN m.err = ErrNone
                 ELSE shut.ncloses = 0 /\ e.err = ErrNone
       IN /\ ok
          /\ objects' = IF shut.backend = "memory" THEN m.objects ELSE objects
          /\ kv' = IF shut.backend = "etcd" THEN e.kv ELSE kv
          /\ wch' = NotifyWatchers(watchers, wch, "ADDED",
                                   [obj EXCEPT !.rv = FormatInt(now)], nwrites + 1)
          /\ shut' = SendOn(shut, Range(WatchersOf(watchers, WatchKey(obj.kind, obj.ns))))
    /\ nwrites' = nwrites + 1
    /\ UNCHANGED <<now, watchers, ret, procs, feed, rsc, sched, dpc, mgr, loops, resp,
                   fac, pair, unavailable, life, agent>>

\* the consumer closes WatchResult.Stop, which is the channel w.stop itself
StopWatch(w) ==
    /\ Alive
    /\ shut.w[w].stop # "none"
    /\ ~shut.w[w].stopped
    /\ shut' = [CloseStops(shut, {w}) EXCEPT !.w[w].stopped = TRUE]
    /\ UNCHANGED <<now, objects, watchers, wch, nwrites, ret, kv, procs, feed, rsc,
                   sched, dpc, mgr, loops, resp, fac, pair, unavailable, life, agent>>

\* the cleanup goroutine of Watch: <-w.stop has returned, removeWatcher
Cleanup(w) ==
    /\ Alive
    /\ shut.w[w].cleanup = "waiting"
    /\ shut.w[w].stop = "closed"
    /\ watchers' = RemoveWatcher(watchers, WatchKey(wch[w].kind, wch[w].ns), w)
    /\ shut' = [shut EXCEPT !.w[w].cleanup = "done"]
    /\ UNCHANGED <<now, objects, wch, nwrites, ret, kv, procs, feed, rsc, sched, dpc,
                   mgr, loops, resp, fac, pair, unavailable, life, agent>>

\* memoryStore.Close: close(w.stop) for the registered watchers whose flag
\* closed is unset, then new maps
MemClose ==
    LET open == {w \in Registered(watchers) : ~shut.w[w].closed}
        after == CloseStops(shut, open)
    IN IF after.panic # PanicNone THEN shut' = after /\ UNCHANGED <<objects, watchers, unavailable, life, agent>>
       ELSE /\ shut' = [after EXCEPT
                           !.w = [w \in Watchers |->
                                     IF w \in open THEN [after.w[w] EXCEPT !.closed = TRUE]
                                     ELSE after.w[w]],
                           !.ncloses = @ + 1]
            /\ objects' = <<>>
            /\ watchers' = <<>>

\* etcdStore.Close: close(w.stop) for every registered watcher, then the client
EtcdClose ==
    LET after == CloseStops(shut, Registered(watchers))
    IN /\ shut' = IF after.panic # PanicNone THEN after
                  ELSE [after EXCEPT !.ncloses = @ + 1]
       /\ UNCHANGED <<objects, watchers, unavailable, life, agent>>

\* Store.Close
StoreClose ==
    /\ Alive
    /\ shut.ncloses < MaxCloses
    /\ IF shut.backend = "memory" THEN MemClose ELSE EtcdClose
    /\ UNCHANGED <<now, wch, nwrites, ret, kv, procs, feed, rsc, sched, dpc, mgr,
                   loops, resp, fac, pair, unavailable, life, agent>>

\* memoryStore.gc: the watchers whose stop channel is closed leave s.watchers
Gc ==
    /\ Alive
    /\ shut.backend = "memory"
    /\ \E w \in Registered(watchers) : shut.w[w].stop = "closed"
    /\ watchers' =
          LET active(k) == SelectSeq(watchers[k], LAMBDA w : shut.w[w].stop = "open")
              kept == {k \in DOMAIN watchers : active(k) # <<>>}
          IN [k \in kept |-> active(k)]
    /\ UNCHANGED <<now, objects, wch, nwrites, ret, kv, procs, feed, rsc, sched, dpc,
                   mgr, loops, resp, fac, pair, shut, unavailable, life, agent>>

----------------------------------------------------------------------------
(* The store comes and goes *)

\* the store becomes unreachable, or reachable again
Outage ==
    /\ unavailable' = ~unavailable
    /\ UNCHANGED <<now, objects, watchers, wch, nwrites, ret, kv, procs, feed, rsc,
                   sched, dpc, mgr, loops, resp, fac, pair, shut, life, agent>>

----------------------------------------------------------------------------
(* Start and Stop of a reconciler, the scheduler or the node agent *)

\* the components with a Start and a Stop of their own, besides the manager
Lifecycles == {"ReplicaSetController", "DeploymentController", "Scheduler", "Agent"}

\* no component made yet; a component as its constructor makes it has
\* running false and an open stopCh, made there and nowhere else; history:
\* nstarts counts the successful Starts, pc[g] is where the goroutines of the
\* g-th Start are, last notes the last Start or Stop and whether it returned
\* an error
NoLife ==
    [c |-> "none", running |-> FALSE, stopCh |-> "open", cancelled |-> FALSE,
     panic |-> FALSE, nstarts |-> 0,
     pc |-> [g \in Goroutines |-> [l \in Loops |-> "none"]],
     last |-> [op |-> "none", err |-> FALSE]]

\* a step of the component or of one of its goroutines
LifeStep(next) ==
    /\ ~life.panic
    /\ life' = next
    /\ UNCHANGED <<now, objects, watchers, wch, nwrites, ret, kv, procs, feed,
                   rsc, sched, dpc, mgr, loops, resp, fac, pair, shut, unavailable, agent>>

\* NewReplicaSetController, NewDeploymentController, NewScheduler, NewAgent
NewComponent(c) ==
    /\ life.c = "none"
    /\ LifeStep([life EXCEPT !.c = c])

\* Start: an error on a running component; the agent's initializeNodeStatus
\* may fail first; else the goroutines are started and running is set
Start(c) ==
    /\ life.c = c
    /\ LET noted == [life EXCEPT !.last = [op |-> "Start", err |-> TRUE]]
       IN IF life.running THEN LifeStep(noted)
          ELSE \E initErr \in IF c = "Agent" THEN BOOLEAN ELSE {FALSE} :
                  IF initErr THEN LifeStep(noted)
                  ELSE /\ life.nstarts < MaxStarts
                       /\ LifeStep([noted EXCEPT
                              !.pc[life.nstarts + 1] = [l \in Loops |->
                                  IF l \in LoopsOf(c) THEN "select" ELSE "none"],
                              !.nstarts = @ + 1,
                              !.running = TRUE,
                              !.last.err = FALSE])

\* Stop: nothing on a component that is not running; else close(stopCh),
\* which panics on a closed channel, and running is cleared
Stop(c) ==
    /\ life.c = c
    /\ LET noted == [life EXCEPT !.last = [op |-> "Stop", err |-> FALSE]]
       IN IF ~life.running THEN LifeStep(noted)
          ELSE IF life.stopCh = "closed" THEN LifeStep([noted EXCEPT !.panic = TRUE])
          ELSE LifeStep([noted EXCEPT !.stopCh = "closed", !.running = FALSE])

\* the context given to Start is cancelled
CancelLife ==
    /\ life.c # "none"
    /\ ~life.cancelled
    /\ LifeStep([life EXCEPT !.cancelled = TRUE])

\* a goroutine at its select takes the case ctx.Done() or the case stopCh;
\* the case of the ticker leaves Start and Stop as they are
GoroutineReturns(g, l) ==
    /\ life.pc[g][l] = "select"
    /\ life.cancelled \/ life.stopCh = "closed"
    /\ LifeStep([life EXCEPT !.pc[g][l] = "returned"])

----------------------------------------------------------------------------
(* Node agent: syncPod *)

\* the name of the agent's node
NodeName == <<"n">>

\* podKey: namespace + "/" + name
PodKey(pod) == <<pod.ns, pod.name>>

\* NewAgent: a.pods is empty; history: last notes the last syncPod, the pod
\* key it was called for, whether that pod was tracked when it was called, the
\* path it took and the error it returned
NewAgent ==
    [pods |-> <<>>,
     last |-> [key |-> <<<<>>, <<>>>>, tracked |-> FALSE, path |-> "none",
               err |-> ErrNone]]

\* PodState of a pod whose createPod went through: the helpers that mount,
\* create, start and set up return nil, so its status is Running
PodState(pod) == [pod |-> pod, phase |-> "Running"]

\* the pods syncPods hands to syncPod: List("Pod", "") filtered by nodeName
NodePods(objs, chans) ==
    {pod \in MemListCall(objs, chans, "Pod", <<>>).out : pod.node = NodeName}

\* Agent.syncPod: createPod for a pod not tracked; updatePod, which only calls
\* deletePod, for a tracked pod with another resource-version; syncPodStatus
\* else, which writes the local status into the tracked pod and updates it in
\* the store (the stored object is the tracked one, resource-version included)
SyncPod(pod) ==
    LET key == PodKey(pod)
        tracked == key \in DOMAIN agent.pods
        noted(path, err) ==
            [key |-> key, tracked |-> tracked, path |-> path, err |-> err]
    IN IF ~tracked
       THEN /\ agent' = [pods |-> MapPut(agent.pods, key, PodState(pod)),
                         last |-> noted("create", ErrNone)]
            /\ UNCHANGED <<objects, wch, nwrites>>
       ELSE IF agent.pods[key].pod.rv # pod.rv
       THEN /\ agent' = [pods |-> MapDel(agent.pods, key),
                         last |-> noted("update", ErrNone)]
            /\ UNCHANGED <<objects, wch, nwrites>>
       ELSE LET state == agent.pods[key]
                own == [state.pod EXCEPT !.phase = state.phase]
                r == MemUpdateCall(objects, watchers, wch, now, nwrites + 1, own)
                after == IF r.err = ErrNone THEN r.objects[StoreKey(own.kind, own.ns, own.name)] ELSE own
            IN /\ r.err = ErrNone => nwrites < MaxWrites
               /\ agent' = [pods |-> MapPut(agent.pods, key,
                                            [state EXCEPT !.pod = after]),
                            last |-> noted("status", r.err)]
               /\ objects' = r.objects
               /\ wch' = r.wch
               /\ nwrites' = IF r.err = ErrNone THEN nwrites + 1 ELSE nwrites

\* syncPods, one turn of its loop: syncPod of a listed pod of this node; or a
\* caller of syncPod hands it a pod of its own
AgentSyncPod(pod) ==
    /\ SyncPod(pod)
    /\ ret' = NoCall
    /\ UNCHANGED <<now, watchers, kv, procs, feed, rsc, sched, dpc, mgr, loops,
                   resp, fac, pair, shut, unavailable, life>>

----------------------------------------------------------------------------
(* Clock *)

Tick ==
    /\ now < MaxClock
    /\ now' = now + 1
    /\ ret' = NoCall
    /\ UNCHANGED <<objects, watchers, wch, nwrites, kv, procs, feed, rsc, sched, dpc, mgr, loops, resp, fac, pair, shut, unavailable, life, agent>>

----------------------------------------------------------------------------
(* Specification of the in-memory store *)

Init ==
    /\ now = 0
    /\ objects = <<>>
    /\ watchers = <<>>
    /\ wch = [w \in Watchers |-> NoWatcher]
    /\ nwrites = 0
    /\ ret = NoCall
    /\ kv = <<>>
    /\ procs = [p \in Procs |-> IdleProc]
    /\ feed = [w \in Watchers |-> NoFeed]
    /\ rsc = NoSync
    /\ dpc = NoDeployments
    /\ mgr = NewManager
    /\ loops = NoLoops
    /\ resp = NoResponse
    /\ fac = NoStore
    /\ pair = NoPair
    /\ shut = NoShutdown
    /\ unavailable = FALSE
    /\ life = NoLife
    /\ agent = NewAgent
    /\ sched = NoPassYet

\* the objects written while versions and errors are observed
StoredObjects == {o \in ClientObjects : o.name = <<"p">>}

Next ==
    \/ \E o \in StoredObjects : MemCreate(o)
    \/ \E o \in StoredObjects : MemGet(o.kind, o.ns, o.name)
    \/ \E sc \in ListScopes : MemList(sc[1], sc[2])
    \/ \E o \in StoredObjects : MemUpdate(o)
    \/ \E o \in StoredObjects : MemDelete(o.kind, o.ns, o.name)
    \/ \E sc \in WatchScopes : MemWatch(1, sc[1], sc[2])
    \/ Receive(1)
    \/ Tick

Spec == Init /\ [][Next]_vars

----------------------------------------------------------------------------
(* Specification of the in-memory store's watch fan-out: two watchers *)

\* the objects written while watchers are observed
WatchedObjects == {o \in ClientObjects : o.phase = "Pending"}

NextWatch ==
    \/ \E o \in WatchedObjects : MemCreate(o)
    \/ \E o \in WatchedObjects : MemUpdate(o)
    \/ \E o \in WatchedObjects : MemDelete(o.kind, o.ns, o.name)
    \/ \E w \in Watchers, sc \in WatchScopes : MemWatch(w, sc[1], sc[2])
    \/ \E w \in Watchers : Receive(w)

SpecWatch == Init /\ [][NextWatch]_vars

----------------------------------------------------------------------------
(* Specification of the etcd store: two callers whose calls interleave *)

\* the objects written to etcd
EtcdObjects == {o \in ClientObjects : o.name = <<"p">> /\ o.phase = "Pending"}

NextEtcd ==
    \/ \E p \in Procs, o \in EtcdObjects : EtcdCreateGet(p, o)
    \/ \E p \in Procs, o \in EtcdObjects : EtcdUpdateGet(p, o)
    \/ \E p \in Procs : EtcdPut(p)
    \/ \E p \in Procs : EtcdNotify(p)
    \/ \E p \in Procs, o \in EtcdObjects : EtcdGet(p, o.kind, o.ns, o.name)
    \/ \E p \in Procs, sc \in ListScopes : EtcdList(p, sc[1], sc[2])
    \/ \E p \in Procs, o \in EtcdObjects : EtcdDeleteGet(p, o.kind, o.ns, o.name)
    \/ \E p \in Procs : EtcdDeleteKey(p)

SpecEtcd == Init /\ [][NextEtcd]_vars

----------------------------------------------------------------------------
(* Specification of the etcd store's watch: a writer, and a caller of Watch *)

NextEtcdWatch ==
    \/ \E o \in EtcdObjects : EtcdCreateGet(1, o)
    \/ \E o \in EtcdObjects : EtcdUpdateGet(1, o)
    \/ EtcdPut(1)
    \/ EtcdNotify(1)
    \/ \E o \in EtcdObjects : EtcdDeleteGet(1, o.kind, o.ns, o.name)
    \/ EtcdDeleteKey(1)
    \/ \E sc \in WatchScopes : EtcdWatchRegister(2, 1, sc[1], sc[2])
    \/ EtcdWatchList(2)
    \/ EtcdWatchSend(2)
    \/ StartEtcdWatch(1)
    \/ EtcdWatchDeliver(1)
    \/ Receive(1)

SpecEtcdWatch == Init /\ [][NextEtcdWatch]_vars

----------------------------------------------------------------------------
(* Specification of the ReplicaSet reconciler: a client that creates and     *)
(* scales ReplicaSets, the controller's syncs and the clock                  *)

\* the ReplicaSets a client may create or update to
ReplicaSets ==
    {NewReplicaSet(NsDefault, <<"r">>, <<"u">>, d, tns) :
        d \in 0..MaxReplicas, tns \in {NsNone, NsDefault}}

\* a pod as a client creates it, with its owner references
ClientPod(ns, name, owner) ==
    [NewObject("Pod", ns, name, "Pending") EXCEPT !.owner = owner]

\* the pods a client may create beside the controller's: one left behind by
\* an earlier ReplicaSet of the same name (another UID), one without owner
ClientPods ==
    {ClientPod(NsDefault, <<"x">>, <<OwnerRef("ReplicaSet", <<"r">>, <<"v">>)>>),
     ClientPod(NsDefault, <<"y">>, <<>>)}

NextRS ==
    \/ \E rs \in ReplicaSets : MemCreate(rs)
    \/ \E pod \in ClientPods : MemCreate(pod)
    \/ \E rs \in ReplicaSets : MemUpdate(rs)
    \/ SyncReplicaSets(1)
    \/ EnsurePodsList(1)
    \/ CreatePod(1)
    \/ DeletePod(1)
    \/ UpdateReplicaSetStatus(1)
    \/ Tick

SpecRS == Init /\ [][NextRS]_vars

----------------------------------------------------------------------------
(* Specification of the ReplicaSet reconciler synced by two goroutines: the
   manager's syncLoop and the controller's watchLoop *)

\* the pods a client may create for the ReplicaSet r of UID u
OwnedPods ==
    {ClientPod(NsDefault, name, <<OwnerRef("ReplicaSet", <<"r">>, <<"u">>)>>) :
        name \in {<<"x">>, <<"y">>}}

\* the ReplicaSets whose pod template names the ReplicaSet's own namespace
SameNsReplicaSets == {rs \in ReplicaSets : rs.template.ns = rs.ns}

NextRSConc ==
    \/ \E rs \in SameNsReplicaSets : MemCreate(rs)
    \/ \E pod \in OwnedPods : MemCreate(pod)
    \/ \E p \in Passes :
          \/ SyncReplicaSets(p)
          \/ EnsurePodsList(p)
          \/ CreatePod(p)
          \/ DeletePod(p)
          \/ UpdateReplicaSetStatus(p)
    \/ Tick

SpecRSConc == Init /\ [][NextRSConc]_vars

----------------------------------------------------------------------------
(* Specification of the scheduler: clients create nodes and pods and update
   them through the API server while the scheduler runs *)

Zone(z) == "zone" :> z

\* the nodes a client may create or update
SchedNodes ==
    {NewNode(<<"n", "1">>, labels, ready, allocatable) :
        labels \in {<<>>, Zone("w")},
        ready \in {"True", "False"},
        allocatable \in {Resources(<<"2">>, <<"1", "G", "i">>),
                         Resources(<<"x">>, <<"1", "G", "i">>),
                         <<>>}}
      \cup {NewNode(<<"n", "2">>, <<>>, "True",
                    Resources(<<"1">>, <<"5", "1", "2", "M", "i">>))}

\* the pods a client may create
SchedPods ==
    {NewPod(<<"p">>, selector, requests) :
        selector \in {<<>>, Zone("w")},
        requests \in {<<>>,
                      Resources(<<"5", "0", "0", "m">>, <<"5", "1", "2", "M", "i">>),
                      Resources(<<"4">>, <<"5", "1", "2", "M", "i">>)}}

\* the Go value that a handler of the API server decodes from a request
Decoded(obj) == [obj EXCEPT !.ref = nwrites + 1]

\* a pod as a client, not the scheduler, binds it to the node called name
BoundTo(pod, name) ==
    [pod EXCEPT !.node = name, !.phase = "Scheduled",
                !.conditions = Append(@, PodScheduledCondition)]

NextSched ==
    \/ \E node \in SchedNodes : MemCreate(Decoded(node))
    \/ \E pod \in SchedPods : MemCreate(Decoded(pod))
    \/ \E node \in SchedNodes : MemUpdate(Decoded(node))
    \/ \E pod \in MemListCall(objects, wch, "Pod", <<>>).out :
          \E node \in SchedNodes :
              pod.node = <<>> /\ MemUpdate(Decoded(BoundTo(pod, node.name)))
    \/ ListPods
    \/ ListNodes
    \/ SchedulePodFind
    \/ SchedulePodAssign
    \/ SchedulePodUpdate

SpecSched == Init /\ [][NextSched]_vars

----------------------------------------------------------------------------
(* Specification of findBestNode: the scheduler has listed the pods and the
   nodes and is about to schedule one pod *)

\* the nodes that may be listed: Ready nodes without labels, n1 and n3 of
\* equal score when n1 declares cpu 2 and memory 1Gi
FindNodes ==
    {node \in SchedNodes : IsNodeReady(node) /\ node.labels = <<>>}
      \cup {NewNode(<<"n", "3">>, <<>>, "True", "cpu" :> <<"3">>)}

\* the lists of nodes that List may return: each name at most once, any order
NodeLists ==
    UNION {Orders(S) : S \in {T \in SUBSET FindNodes :
                                 \A a, b \in T : a.name = b.name => a = b}}

\* the scheduledPods maps: the pods q and r tracked or not, on any node
TrackedPods ==
    LET names == {node.name : node \in FindNodes}
        q == ObjKey(NsDefault, <<"q">>)
        r == ObjKey(NsDefault, <<"r">>)
    IN {<<>>} \cup {MapPut(<<>>, q, n) : n \in names}
              \cup {MapPut(MapPut(<<>>, q, n), r, m) : n \in names, m \in names}

InitFind ==
    /\ now = 0
    /\ objects = <<>>
    /\ watchers = <<>>
    /\ wch = [w \in Watchers |-> NoWatcher]
    /\ nwrites = 0
    /\ ret = NoCall
    /\ kv = <<>>
    /\ procs = [p \in Procs |-> IdleProc]
    /\ feed = [w \in Watchers |-> NoFeed]
    /\ rsc = NoSync
    /\ dpc = NoDeployments
    /\ mgr = NewManager
    /\ loops = NoLoops
    /\ resp = NoResponse
    /\ fac = NoStore
    /\ pair = NoPair
    /\ shut = NoShutdown
    /\ unavailable = FALSE
    /\ life = NoLife
    /\ agent = NewAgent
    /\ \E pod \in SchedPods, nodes \in NodeLists, tracked \in TrackedPods :
          sched = [NoPassYet EXCEPT !.pc = "find", !.todo = <<pod>>,
                                    !.nodes = nodes, !.scheduledPods = tracked,
                                    !.npasses = 1]

NextFind == SchedulePodFind

SpecFind == InitFind /\ [][NextFind]_vars

----------------------------------------------------------------------------
(* Claims about the in-memory store *)

Live(objs, id) == \E k \in DOMAIN objs : Ident(objs[k]) = id

FullBuffer(w) == Len(Buffer(w)) >= WatchBufferSize

\* C1: at most one live object exists per (kind, namespace, name), and Create
\* on a taken (kind, namespace, name) fails with "already exists" and leaves
\* the stored objects, their resource-versions and every watcher buffer as
\* they were.
C1_UniqueAndDuplicateCreateFails ==
    /\ \A k1, k2 \in DOMAIN objects :
          Ident(objects[k1]) = Ident(objects[k2]) => k1 = k2
    /\ \A o \in ClientObjects :
          Live(objects, Ident(o)) =>
              LET r == MemCreateCall(objects, watchers, wch, now, nwrites + 1, o)
              IN /\ r.err = ErrAlreadyExists
                 /\ r.objects = objects
                 /\ r.wch = wch

\* a duplicate Create has just failed while a watcher held a buffered event
C1_Witness ==
    /\ ret.op = "Create"
    /\ ret.err = ErrAlreadyExists
    /\ \E w \in Watchers : wch[w].open /\ Buffer(wch[w]) # <<>>

\* C3: every successful Create or Update stores a resource-version strictly
\* larger than the one stored for that object by the write before it, whatever
\* the clock reads.
C3_VersionStrictlyIncreases ==
    (ret.op \in {"Create", "Update"} /\ ret.err = ErrNone /\ ret.prev # <<>>)
        => VersionValue(ret.new) > VersionValue(ret.prev)

SnapshotEvents(w) == {i \in DOMAIN w.stream : w.stream[i].wid = 0}
LiveEvents(w) == {i \in DOMAIN w.stream : w.stream[i].wid # 0}

\* C4: the stream of a watcher holds an Added event for every object that was
\* live in its kind and namespace when Watch was called, and these snapshot
\* events come before every event of a later write.
C4_SnapshotCompleteAndFirst ==
    \A w \in Watchers :
        wch[w].open =>
            /\ \A id \in wch[w].snap :
                  \E i \in SnapshotEvents(wch[w]) :
                      /\ wch[w].stream[i].type = "ADDED"
                      /\ Ident(wch[w].stream[i].obj) = id
            /\ \A i \in SnapshotEvents(wch[w]), j \in LiveEvents(wch[w]) : i < j

\* the event a write of the given type on obj sends
WriteEvent(type, obj) == Event(type, obj, nwrites + 1, Ident(obj))

\* what a successful write must do to the watchers: a registered watcher of
\* the object's kind and namespace with room gets the event appended, a full
\* one and every other watcher stay as they are
FanOutOk(after, type, obj) ==
    \A w \in Watchers :
        IF /\ wch[w].open
           /\ wch[w].kind = obj.kind
           /\ wch[w].ns = obj.ns
           /\ ~FullBuffer(wch[w])
        THEN after[w] = [wch[w] EXCEPT !.stream = Append(@, WriteEvent(type, obj))]
        ELSE after[w] = wch[w]

\* C6: a Create, Update or Delete never waits for a watcher: with some buffers
\* full the write still succeeds, the event is dropped for the full watchers
\* only, and the other watchers of the kind and namespace receive it.
C6_WritesNeverBlockOnWatchers ==
    \A o \in ClientObjects :
        LET key == StoreKey(o.kind, o.ns, o.name)
            c == MemCreateCall(objects, watchers, wch, now, nwrites + 1, o)
            u == MemUpdateCall(objects, watchers, wch, now, nwrites + 1, o)
            d == MemDeleteCall(objects, watchers, wch, nwrites + 1, o.kind, o.ns, o.name)
        IN IF Live(objects, Ident(o))
           THEN /\ u.err = ErrNone
                /\ FanOutOk(u.wch, "MODIFIED", u.objects[key])
                /\ d.err = ErrNone
                /\ FanOutOk(d.wch, "DELETED", objects[key])
           ELSE /\ c.err = ErrNone
                /\ FanOutOk(c.wch, "ADDED", c.objects[key])

\* a write has just succeeded whose event one watcher dropped (its buffer was
\* full) and another watcher of the same kind and namespace received
C6_Witness ==
    /\ ret.op \in {"Create", "Update", "Delete"}
    /\ ret.err = ErrNone
    /\ \E w1, w2 \in Watchers :
          /\ wch[w1].open /\ wch[w2].open
          /\ wch[w1].kind = wch[w2].kind /\ wch[w1].ns = wch[w2].ns
          /\ FullBuffer(wch[w1])
          /\ \A i \in DOMAIN wch[w1].stream : wch[w1].stream[i].wid # nwrites
          /\ wch[w2].stream # <<>>
          /\ wch[w2].stream[Len(wch[w2].stream)].wid = nwrites

\* C8: Get, Update and Delete on a (kind, namespace, name) that is not live
\* fail with a not-found error and leave the objects, their resource-versions
\* and the watcher buffers as they were; Update on a live object replaces it,
\* assigns a new resource-version and emits Modified.
C8_NotFoundAndUpdate ==
    \A o \in ClientObjects :
        LET key == StoreKey(o.kind, o.ns, o.name)
            g == MemGetCall(objects, wch, o.kind, o.ns, o.name)
            u == MemUpdateCall(objects, watchers, wch, now, nwrites + 1, o)
            d == MemDeleteCall(objects, watchers, wch, nwrites + 1, o.kind, o.ns, o.name)
        IN IF ~Live(objects, Ident(o))
           THEN \A r \in {g, u, d} :
                    /\ r.err \in NotFoundErrors
                    /\ r.objects = objects
                    /\ r.wch = wch
           ELSE /\ u.err = ErrNone
                /\ DOMAIN u.objects = DOMAIN objects
                /\ \A k \in DOMAIN objects \ {key} : u.objects[k] = objects[k]
                /\ u.objects[key] = [o EXCEPT !.rv = u.objects[key].rv]
                /\ FanOutOk(u.wch, "MODIFIED", u.objects[key])
                /\ (ret.op = "Update" /\ ret.err = ErrNone) => ret.new # ret.prev

----------------------------------------------------------------------------
(* Claims about both backends *)

\* C2: two Create calls for one (kind, namespace, name) that overlap in time
\* and both begin while the key is free end with exactly one success and one
\* "already exists" (on the in-memory store, where calls cannot overlap, the
\* second of two Creates of a free key fails).
C2_ConcurrentCreatesOneWins ==
    /\ \A o \in ClientObjects :
          ~Live(objects, Ident(o)) =>
              LET c1 == MemCreateCall(objects, watchers, wch, now, nwrites + 1, o)
                  c2 == MemCreateCall(c1.objects, watchers, c1.wch, now, nwrites + 2, o)
              IN c1.err = ErrNone /\ c2.err = ErrAlreadyExists
    /\ \A p, q \in Procs :
          (/\ p # q
           /\ procs[p].pc = "done" /\ procs[q].pc = "done"
           /\ procs[p].op = "Create" /\ procs[q].op = "Create"
           /\ q \in procs[p].conc
           /\ procs[p].free /\ procs[q].free)
          => {procs[p].err, procs[q].err} = {ErrNone, ErrAlreadyExists}

\* C5: the events of writes in one watcher's stream follow the order of the
\* writes: each reports a write that happened, to an object of the watched
\* kind and namespace, no write is reported twice, and no two are reversed.
C5_LiveEventsFollowWriteOrder ==
    \A w \in Watchers :
        wch[w].open =>
            \A i \in LiveEvents(wch[w]) :
                /\ wch[w].stream[i].wid > 0
                /\ wch[w].stream[i].of[1] = wch[w].kind
                /\ wch[w].stream[i].of[2] = wch[w].ns
                /\ \A j \in LiveEvents(wch[w]) :
                      i < j => wch[w].stream[i].wid < wch[w].stream[j].wid

\* the objects List(kind, ns) is to return out of the live ones
InScope(live, kind, ns) ==
    {o \in live : o.kind = kind /\ (ns = <<>> \/ o.ns = ns)}

\* C7: on either backend List(kind, ns) with a non-empty ns returns exactly
\* the live objects of the kind whose namespace equals ns, and List(kind, "")
\* returns every live object of the kind.
C7_ListMatchesNamespaceExactly ==
    \A sc \in ListScopes :
        /\ MemListCall(objects, wch, sc[1], sc[2]).out
              = InScope({objects[k] : k \in DOMAIN objects}, sc[1], sc[2])
        /\ EtcdListCall(kv, sc[1], sc[2]).out = InScope(EtcdLive(kv), sc[1], sc[2])
        /\ \A p \in Procs :
              (procs[p].pc = "done" /\ procs[p].op = "List" /\ procs[p].obj.ns = sc[2])
                  => \A o \in procs[p].out : o.kind = sc[1] /\ (sc[2] = <<>> \/ o.ns = sc[2])

\* C9: a successful Delete removes the object, so that a following Get fails
\* with not found and a following Create succeeds, and sends Deleted to the
\* watchers of the object's kind and namespace; every Deleted event in a
\* watcher's stream carries the kind, namespace and name of the deleted object.
C9_DeleteRemovesAndReports ==
    /\ \A o \in ClientObjects :
          Live(objects, Ident(o)) =>
              LET key == StoreKey(o.kind, o.ns, o.name)
                  d == MemDeleteCall(objects, watchers, wch, nwrites + 1,
                                     o.kind, o.ns, o.name)
                  g == MemGetCall(d.objects, d.wch, o.kind, o.ns, o.name)
                  c == MemCreateCall(d.objects, watchers, d.wch, now, nwrites + 2, o)
              IN /\ d.err = ErrNone
                 /\ ~Live(d.objects, Ident(o))
                 /\ FanOutOk(d.wch, "DELETED", objects[key])
                 /\ g.err \in NotFoundErrors
                 /\ c.err = ErrNone
    /\ \A p \in Procs :
          (procs[p].pc = "notify" /\ procs[p].op = "Delete") =>
              LET arg == procs[p].obj
                  g == EtcdGetCall(kv, arg.kind, arg.ns, arg.name)
              IN g.err = ErrNotFound
    /\ \A w \in Watchers :
          \A i \in DOMAIN wch[w].stream :
              wch[w].stream[i].type = "DELETED"
                  => Ident(wch[w].stream[i].obj) = wch[w].stream[i].of

----------------------------------------------------------------------------
(* Claims about the ReplicaSet reconciler *)

\* C10: when the sync of a ReplicaSet R of namespace N with spec.replicas = d
\* that began with fewer than d owned pods has ended, List(Pod, N) returns
\* exactly d pods, each with an owner reference to R (kind ReplicaSet, R's
\* name and UID), phase Pending and an empty nodeName.
C10_SyncCreatesMissingPods ==
    \A g \in Passes : \A i \in DOMAIN rsc.pass[g].done :
        LET R == rsc.pass[g].done[i].rs
            pods == MemListCall(objects, wch, "Pod", R.ns).out
        IN (rsc.pass[g].done[i].over /\ rsc.pass[g].done[i].c < R.replicas) =>
              /\ Cardinality(pods) = R.replicas
              /\ \A p \in pods :
                    /\ p.owner = <<OwnerRef("ReplicaSet", R.name, R.uid)>>
                    /\ p.phase = "Pending"
                    /\ p.node = <<>>

\* C11: when the sync of a ReplicaSet R with spec.replicas = d that began with
\* c > d owned pods has ended, exactly c - d pods are gone, all of them owned
\* by R, and d owned pods remain; a sync of R with d = 0 leaves no owned pod.
C11_SyncDeletesSurplusOwnedPods ==
    \A g \in Passes : \A i \in DOMAIN rsc.pass[g].done :
        LET R == rsc.pass[g].done[i].rs
            before == rsc.pass[g].done[i].before
            gone == {p \in before : ~Live(objects, Ident(p))}
        IN rsc.pass[g].done[i].over =>
              /\ Cardinality(OwnedBy(before, R)) > R.replicas =>
                    /\ gone \subseteq OwnedBy(before, R)
                    /\ Cardinality(gone) = Cardinality(OwnedBy(before, R)) - R.replicas
                    /\ Cardinality(OwnedBy(LivePods(objects), R)) = R.replicas
              /\ (R.replicas = 0 /\ OwnedBy(before, R) = {}) =>
                    OwnedBy(LivePods(objects), R) = {}

\* C12: the status.replicas that the sync of a ReplicaSet writes to the store
\* is the number of pods owned by the ReplicaSet that are live at the end of
\* that sync.
C12_StatusReplicasCountsLiveOwnedPods ==
    \A g \in Passes : \A i \in DOMAIN rsc.pass[g].done :
        (rsc.pass[g].done[i].over /\ rsc.pass[g].done[i].stored) =>
            rsc.pass[g].done[i].status.replicas
                = Cardinality(OwnedBy(LivePods(objects), rsc.pass[g].done[i].rs))

\* C13: a sync of the ReplicaSet reconciler, the second or a later one, that
\* begins on a steady store (every ReplicaSet has spec.replicas owned pods) and
\* during which no client writes, makes no write to the store.
C13_SyncOfSteadyStoreWritesNothing ==
    \A g \in Passes :
        (/\ rsc.nsyncs >= 2
         /\ rsc.pass[g].start.steady
         /\ nwrites - rsc.writes = rsc.pass[g].start.clients)
            => rsc.writes = rsc.pass[g].start.own

\* C14: once the spec of a ReplicaSet R no longer changes, the syncs bring the
\* number of pods that refer to R as owner to R.spec.replicas and keep it
\* there. A sync that finds no pod to create or delete, with no client write
\* since it began, is repeated unchanged by every later sync, so it must have
\* left exactly spec.replicas owned pods.
C14_SyncAtRestHasDesiredCount ==
    \A g \in Passes : \A i \in DOMAIN rsc.pass[g].done :
        (/\ rsc.pass[g].done[i].over
         /\ rsc.pass[g].done[i].todo = 0
         /\ nwrites - rsc.writes = rsc.pass[g].start.clients)
            => Cardinality(OwnedBy(LivePods(objects), rsc.pass[g].done[i].rs))
                  = rsc.pass[g].done[i].rs.replicas

\* C15: the pods the reconciler counts for the ReplicaSet it syncs, and the
\* pods it deletes for it, all carry an owner reference of kind ReplicaSet
\* with the name and the UID of that ReplicaSet.
C15_CountsAndDeletesOnlyOwnPods ==
    /\ \A g \in Passes :
          rsc.pass[g].pc # "idle" =>
              \A i \in DOMAIN rsc.pass[g].cur :
                  rsc.pass[g].cur[i] \in OwnedBy({rsc.pass[g].cur[i]}, Syncing(g))
    /\ \A g \in Passes : \A i \in DOMAIN rsc.pass[g].done :
          {p \in rsc.pass[g].done[i].before : ~Live(objects, Ident(p))}
              \subseteq OwnedBy(rsc.pass[g].done[i].before, rsc.pass[g].done[i].rs)

\* C16: when two goroutines sync the same ReplicaSet R (c owned pods,
\* spec.replicas = d) at the same time and no client writes meanwhile, the two
\* passes together create at most d - c pods and delete at most c - d pods.
C16_ConcurrentSyncsKeepDesiredCount ==
    \A g \in Passes : \A h \in Passes \ {g} :
        \A i \in DOMAIN rsc.pass[g].done : \A j \in DOMAIN rsc.pass[h].done :
            LET first == rsc.pass[h].done[j]
                second == rsc.pass[g].done[i]
                R == first.rs
                c == Cardinality(OwnedBy(first.before, R))
                created == OwnedBy(LivePods(objects), R) \ first.before
                deleted == {o \in OwnedBy(first.before, R) : ~Live(objects, Ident(o))}
            IN (/\ first.over /\ second.over
                /\ rsc.pass[h].start.sync \in second.after
                /\ second.rs = R
                /\ nwrites - rsc.writes = rsc.pass[h].start.clients)
                   => /\ Cardinality(created)
                            <= (IF R.replicas > c THEN R.replicas - c ELSE 0)
                      /\ Cardinality(deleted)
                            <= (IF c > R.replicas THEN c - R.replicas ELSE 0)

----------------------------------------------------------------------------
(* Claims about the scheduler *)

\* C17: whoever reads the store (Get, List) never sees a pod with a non-empty
\* spec.nodeName whose status.phase is not Scheduled or that has no condition
\* PodScheduled=True: the bind shows only through the one store.Update.
C17_BindIsSeenAllAtOnce ==
    \A pod \in MemListCall(objects, wch, "Pod", <<>>).out :
        pod.node # <<>> =>
            /\ pod.phase = "Scheduled"
            /\ PodScheduledCondition \in Range(pod.conditions)

\* C18: every pod the scheduler writes with spec.nodeName = n has phase
\* Scheduled and a condition PodScheduled=True with reason Scheduled, and the
\* node n has a condition Ready=True in the store at the moment of that write.
C18_BoundNodeIsReadyAtBind ==
    \A i \in DOMAIN sched.bound :
        LET b == sched.bound[i]
        IN /\ b.pod.node = b.node.name
           /\ b.pod.phase = "Scheduled"
           /\ PodScheduledCondition \in Range(b.pod.conditions)
           /\ b.ready

\* C19: once the spec.nodeName of a stored pod is non-empty, no step changes it
\* to another value or back to empty.
C19_NodeNameNeverChanges ==
    [][\A k \in DOMAIN objects :
          (k[1] = "Pod" /\ objects[k].node # <<>> /\ k \in DOMAIN objects')
              => objects'[k].node = objects[k].node]_vars

\* the amount of a resource the node offers: the parsed status.allocatable, 0
\* when the entry is missing or cannot be parsed
Allocatable(node, resource) ==
    LET parsed == IF resource = "cpu" THEN ParseCPU(node.allocatable[resource])
                  ELSE ParseMemory(node.allocatable[resource])
    IN IF resource \in DOMAIN node.allocatable /\ ~parsed.err THEN parsed.val ELSE 0

\* C20: the node the scheduler binds a pod to has a condition Ready=True, has
\* the label k = v for every (k, v) of the pod's nodeSelector, and its
\* status.allocatable for cpu and for memory is not exceeded by the sum of the
\* requests of the pod's containers.
C20_BoundNodePassesEveryFilter ==
    \A i \in DOMAIN sched.bound :
        LET b == sched.bound[i]
        IN /\ IsNodeReady(b.node)
           /\ \A k \in DOMAIN b.pod.selector :
                 k \in DOMAIN b.node.labels /\ b.node.labels[k] = b.pod.selector[k]
           /\ TotalCPU(b.pod.containers) <= Allocatable(b.node, "cpu")
           /\ TotalMemory(b.pod.containers) <= Allocatable(b.node, "memory")

\* the filter of the scheduler as specified: the node is Ready=True, carries
\* every label of the pod's nodeSelector, and offers at least the cpu and the
\* memory that the pod's containers request
PassesEveryFilter(pod, node) ==
    /\ IsNodeReady(node)
    /\ \A k \in DOMAIN pod.selector :
          k \in DOMAIN node.labels /\ node.labels[k] = pod.selector[k]
    /\ TotalCPU(pod.containers) <= Allocatable(node, "cpu")
    /\ TotalMemory(pod.containers) <= Allocatable(node, "memory")

\* C21: a Pending pod for which no listed node passes the filter is left
\* untouched by the tick: the scheduler neither assigns to it nor updates it
\* nor fails on it, and records no entry for it in scheduledPods.
C21_UnschedulablePodIsLeftUntouched ==
    /\ sched.pc \in {"find", "assign", "update", "panic"} =>
          LET pod == Head(sched.todo)
          IN (\A i \in DOMAIN sched.nodes : ~PassesEveryFilter(pod, sched.nodes[i]))
                => sched.pc = "find"
    /\ \A i \in DOMAIN sched.bound :
          LET b == sched.bound[i]
          IN ObjKey(b.pod.ns, b.pod.name) \in DOMAIN sched.scheduledPods
                => PassesEveryFilter(b.pod, b.node)

\* C22: whenever a listed node passes all filters for the pod at hand,
\* findBestNode returns one of the passing nodes, whatever their scores, and
\* the tick never dereferences a missing node.
C22_PassingNodeIsAlwaysChosen ==
    /\ sched.pc # "panic"
    /\ sched.pc = "find" =>
          LET pod == Head(sched.todo)
              found == FindBestNode(pod, sched.nodes, sched.scheduledPods)
          IN SuitableNodes(pod, sched.nodes) # <<>> =>
                /\ ~found.err
                /\ found.node # <<>>
                /\ found.node[1] \in Range(SuitableNodes(pod, sched.nodes))

\* the score of a node as specified, in 1/128000: allocatable cpu cores plus
\* allocatable memory in GiB minus the number of tracked pods on the node
Score(node, tracked) ==
    Allocatable(node, "cpu") * 128 + (Allocatable(node, "memory") \div Mi) * 125
        - Cardinality({k \in DOMAIN tracked : tracked[k] = node.name}) * 128000

\* C23: the node that findBestNode returns is, among the nodes that passed the
\* filter, one of maximal score, and the first of them in the order of the
\* list.
C23_ChosenNodeIsFirstOfMaximalScore ==
    sched.pc = "assign" =>
        LET suitable == SuitableNodes(Head(sched.todo), sched.nodes)
            tracked == sched.scheduledPods
        IN \E i \in DOMAIN suitable :
              /\ suitable[i] = sched.node[1]
              /\ \A j \in DOMAIN suitable :
                    Score(suitable[j], tracked) <= Score(suitable[i], tracked)
              /\ \A j \in 1..(i - 1) :
                    Score(suitable[j], tracked) < Score(suitable[i], tracked)

\* two passing nodes of equal, maximal score, and one with a tracked pod
C23_Witness ==
    /\ sched.pc = "assign"
    /\ LET suitable == SuitableNodes(Head(sched.todo), sched.nodes)
           tracked == sched.scheduledPods
       IN /\ Len(suitable) >= 3
          /\ \E j \in DOMAIN suitable :
                /\ suitable[j] # sched.node[1]
                /\ Score(suitable[j], tracked) = Score(sched.node[1], tracked)
          /\ \E j \in DOMAIN suitable :
                Score(suitable[j], tracked) < Score(suitable[j], <<>>)

----------------------------------------------------------------------------
(* Specification of the Deployment reconciler: a client that creates, scales
   and re-images a deployment, the controller's syncs, a fresh controller on
   the same store, and the clock *)

\* the deployments a client may create or update to
Deployments ==
    {NewDeployment(<<"d">>, <<"u">>, n, image) :
        n \in 0..MaxReplicas, image \in {<<"a">>, <<"b">>}}

NextDeploy ==
    \/ \E deployment \in Deployments : MemCreate(deployment)
    \/ \E deployment \in Deployments : MemUpdate(deployment)
    \/ SyncDeployments
    \/ EnsureReplicaSet
    \/ DeploymentEnsurePods
    \/ DeploymentCreatePod
    \/ DeploymentDeletePod
    \/ DeploymentUpdateStatus
    \/ NewDeploymentController
    \/ Tick

SpecDeploy == Init /\ [][NextDeploy]_vars

----------------------------------------------------------------------------
(* Claims about the Deployment reconciler *)

\* C24: whenever the Deployment reconciler is between syncs and every sync of a
\* deployment D so far saw the same template, the store holds exactly one
\* ReplicaSet whose owner reference points to D, and its selector and template
\* are D's; this also after a fresh reconciler, tracking nothing, has synced D
C24_ExactlyOneOwnedReplicaSet ==
    dpc.pc = "idle" =>
        \A key \in DOMAIN dpc.synced :
            LET D == dpc.synced[key].deployment[1]
                owned == OwnedReplicaSets(objects, D)
            IN Cardinality(dpc.synced[key].images) = 1 =>
                  /\ Cardinality(owned) = 1
                  /\ \A rs \in owned : /\ rs.selector = D.selector
                                       /\ rs.template = D.template

\* the stored object that o names
StoredAs(objs, o) == objs[StoreKey(o.kind, o.ns, o.name)]

\* C25: whenever the Deployment reconciler is between syncs, the last sync of
\* a deployment D ended without error and every sync of D saw the same
\* template, the stored ReplicaSet that the reconciler tracks for D has
\* spec.replicas equal to the spec.replicas of D as that sync listed it
C25_ReplicaSetFollowsDeploymentReplicas ==
    dpc.pc = "idle" =>
        \A key \in DOMAIN dpc.synced \cap DOMAIN dpc.deployments :
            LET D == dpc.synced[key].deployment[1]
                tracked == dpc.deployments[key].rs
            IN (/\ Cardinality(dpc.synced[key].images) = 1
                /\ ~dpc.synced[key].err
                /\ tracked # <<>>)
                  => StoredAs(objects, tracked[1]).replicas = D.replicas

\* C26: whenever the Deployment reconciler is between syncs, the last sync of
\* a deployment D ended without error and no client has written since, the
\* stored D has status.replicas and status.availableReplicas equal to those of
\* the stored ReplicaSet that the reconciler tracks for D
C26_DeploymentStatusMirrorsReplicaSet ==
    dpc.pc = "idle" =>
        \A key \in DOMAIN dpc.synced \cap DOMAIN dpc.deployments :
            LET D == dpc.synced[key].deployment[1]
                tracked == dpc.deployments[key].rs
            IN (/\ ~dpc.synced[key].err
                /\ dpc.synced[key].clients = nwrites - dpc.writes
                /\ tracked # <<>>)
                  => /\ StoredAs(objects, D).status.replicas
                         = StoredAs(objects, tracked[1]).status.replicas
                     /\ StoredAs(objects, D).status.available
                         = StoredAs(objects, tracked[1]).status.available

----------------------------------------------------------------------------
(* Specification of the controller manager: controllers are registered, the
   manager is started and stopped any number of times, its context may be
   cancelled, and its syncLoop goroutines tick *)

NextMgr ==
    \/ \E c \in Controllers : AddController(c)
    \/ ManagerStart
    \/ ManagerStop
    \/ CancelContext
    \/ \E g \in Goroutines : SyncLoopReturns(g)
    \/ \E g \in Goroutines : SyncLoopTick(g)
    \/ \E g \in Goroutines : SyncAllOne(g)

SpecMgr == Init /\ [][NextMgr]_vars

----------------------------------------------------------------------------
(* Claims about the controller manager *)

\* a syncLoop goroutine of the manager m that has not returned
Serving(m) == \E g \in Goroutines : m.loop[g].pc \in {"select", "sync"}

\* C27: a Start of a manager that is not running leaves it running with every
\* registered controller running and a syncLoop that serves ticks; a Start of
\* a running manager returns an error and changes nothing else; a Stop of a
\* running manager ends without panic, with the manager and every registered
\* controller not running; a Stop of a manager that is not running changes
\* nothing; and a tick calls Sync of every controller registered when it began
\* once, whatever the calls before it returned
C27_ManagerLifecycle ==
    [][/\ (ManagerStart /\ ~mgr.running) =>
             /\ ~mgr'.last.err /\ mgr'.running
             /\ \A c \in DOMAIN mgr.controllers : mgr'.controllers[c].running
       /\ (ManagerStart /\ mgr.running) =>
             mgr' = [mgr EXCEPT !.last = [op |-> "Start", err |-> TRUE]]
       /\ (ManagerStop /\ mgr.running) =>
             /\ ~mgr'.panic /\ ~mgr'.running
             /\ \A c \in DOMAIN mgr.controllers : ~mgr'.controllers[c].running
       /\ (ManagerStop /\ ~mgr.running) =>
             mgr' = [mgr EXCEPT !.last = [op |-> "Stop", err |-> FALSE]]
       /\ (mgr'.running /\ ~mgr'.cancelled /\ ~mgr'.panic
             /\ \E g \in Goroutines : SyncLoopReturns(g)) => Serving(mgr')
       /\ \A g \in Goroutines :
             (SyncAllOne(g) /\ mgr'.loop[g].pc = "select") =>
                 /\ Range(mgr'.loop[g].synced) = mgr.loop[g].snapshot
                 /\ Len(mgr'.loop[g].synced) = Cardinality(mgr.loop[g].snapshot)
      ]_vars

----------------------------------------------------------------------------
(* Specification of the background loops: components are started, stopped or
   closed, the root context is cancelled, and the loops turn *)

NextLoops ==
    \/ \E c \in Components : StartComponent(c)
    \/ \E c \in Components : StopComponent(c)
    \/ CancelRoot
    \/ \E l \in Loops : LoopReturns(l)
    \/ \E l \in Loops : LoopTurn(l)
    \/ KeepAliveLeaseStart
    \/ KeepAliveLeaseTurn

SpecLoops == Init /\ [][NextLoops]_vars

----------------------------------------------------------------------------
(* Claims about shutdown *)

\* C28: once the shutdown of a loop's component has begun (the root context
\* cancelled, Stop or Close called), the loop has returned, or is about to (it
\* is at its first statement or has a ready case of its select that returns):
\* no loop is left that can only turn again
C28_LoopsReturnAfterShutdown ==
    \A l \in Loops :
        Down(l) => \/ loops.pc[l] \in {"none", "start", "returned"}
                   \/ ReturnReady(l)

----------------------------------------------------------------------------
(* Specification of the API server's pod creation: clients post pods, well
   formed or not, and the clock advances *)

\* the container lists of the posted pods
ContainerLists ==
    {<<>>,
     <<Container(<<"c">>, <<"i">>)>>,
     <<Container(<<>>, <<"i">>)>>,
     <<Container(<<"c">>, <<>>)>>,
     <<Container(<<"c">>, <<"i">>), Container(<<"d">>, <<>>)>>}

\* the bodies of the requests
Bodies ==
    {RequestPod(name, containers) :
        name \in {<<"p">>, <<"q">>}, containers \in ContainerLists}
    \cup {Malformed}

\* the pods the spec calls valid: a non-empty container list, every container
\* with a name and an image
ValidPod(pod) ==
    /\ pod.containers # <<>>
    /\ \A i \in DOMAIN pod.containers :
          pod.containers[i].name # <<>> /\ pod.containers[i].image # <<>>

NextAPI ==
    \/ \E namespace \in {NsDef, NsDefault}, body \in Bodies :
          ServerCreatePod(namespace, body)
    \/ Tick

SpecAPI == Init /\ [][NextAPI]_vars

----------------------------------------------------------------------------
(* Claims about the API server *)

\* C29: a request that creates a pod whose container list is empty, or that
\* has a container with an empty name or an empty image, is answered with
\* status 400 and leaves the store as it was
C29_InvalidPodIsRejected ==
    [][\A namespace \in {NsDef, NsDefault} :
          \A body \in Bodies \ {Malformed} :
             (ServerCreatePod(namespace, body) /\ ~ValidPod(body)) =>
                 /\ resp'.status = StatusBadRequest
                 /\ objects' = objects]_vars

----------------------------------------------------------------------------
(* Specification of the store factory: etcd comes and goes, the program
   constructs its store once, and uses the in-memory store it was given *)

StoreConfigs ==
    {StoreConfig(type, endpoints) :
        type \in {StoreTypeMemory, StoreTypeEtcd, "unknown"},
        endpoints \in {<<>>, <<"invalid:9999">>}}

NextFactory ==
    \/ \E call \in {"NewStore", "NewStoreWithFallback"}, config \in StoreConfigs :
          Construct(call, config)
    \/ Reach
    \/ fac.store = "memoryStore" /\ \E o \in StoredObjects : MemCreate(o)
    \/ fac.store = "memoryStore" /\ \E o \in StoredObjects : MemGet(o.kind, o.ns, o.name)
    \/ fac.store = "memoryStore" /\ \E o \in StoredObjects : MemDelete(o.kind, o.ns, o.name)
    \/ fac.store = "memoryStore" /\ Tick

SpecFactory == Init /\ [][NextFactory]_vars

----------------------------------------------------------------------------
(* Claims about the store factory *)

\* what the factories are to return for a configuration, etcd failing the
\* connection test or not
FactoryOutcome(f) ==
    /\ (f.config.type = StoreTypeEtcd /\ ~f.connected
          /\ f.call = "NewStoreWithFallback")
          => f.store = "memoryStore" /\ f.err = ErrNone
    /\ (f.config.type = StoreTypeEtcd /\ ~f.connected /\ f.call = "NewStore")
          => f.store = "none" /\ f.err # ErrNone
    /\ f.config.type = StoreTypeMemory
          => f.store = "memoryStore" /\ f.err = ErrNone
    /\ f.config.type \notin {StoreTypeMemory, StoreTypeEtcd}
          => f.store = "none" /\ f.err = ErrUnknownStoreType

\* C30: for type etcd with a failing initial connection the factory with
\* fallback returns an in-memory store and no error and the factory without
\* fallback an error and no store; for type memory both return an in-memory
\* store; for an unknown type both return the error 'unknown store type'; and
\* the store once returned stays the same whatever happens to etcd afterwards
C30_FactoryChoosesOnce ==
    [][/\ fac'.call # "none" => FactoryOutcome(fac')
       /\ fac.call # "none" => /\ fac'.store = fac.store
                               /\ fac'.err = fac.err
                               /\ fac'.call = fac.call]_vars

\* the fallback store in use: constructed with fallback for type etcd while
\* etcd was unreachable, written to, and etcd reachable since
C30_Witness ==
    /\ fac.call = "NewStoreWithFallback"
    /\ fac.config.type = StoreTypeEtcd
    /\ ~fac.connected
    /\ fac.store = "memoryStore"
    /\ fac.reachable
    /\ objects # <<>>

----------------------------------------------------------------------------
(* Specification of the two backends side by side: one caller makes every
   call on both, objects of the four kinds in two namespaces of which one is
   a prefix of the other *)

Kinds == {"Pod", "Node", "ReplicaSet", "Deployment"}

BothObjects ==
    {NewObject(k, ns, <<"p">>, ph) :
        k \in Kinds, ns \in {NsDef, NsDefault}, ph \in {"Pending", "Running"}}

BothScopes == {<<k, ns>> : k \in Kinds, ns \in {NsNone, NsDef, NsDefault}}

NextBoth ==
    \/ \E o \in BothObjects : o.phase = "Pending" /\ BothCreate(o)
    \/ \E o \in BothObjects : BothGet(o.kind, o.ns, o.name)
    \/ \E sc \in BothScopes : BothList(sc[1], sc[2])
    \/ \E o \in BothObjects : BothUpdate(o)
    \/ \E o \in BothObjects : BothDelete(o.kind, o.ns, o.name)
    \/ Tick

SpecBoth == Init /\ [][NextBoth]_vars

----------------------------------------------------------------------------
(* Claims about the contract of the two backends *)

\* success, already exists or not found, as a caller tells them apart
OutcomeOf(err) ==
    IF err = ErrNone THEN "success"
    ELSE IF err = ErrAlreadyExists THEN "already exists"
    ELSE IF err \in NotFoundErrors THEN "not found"
    ELSE err

\* C31: for every sequence of Create, Get, List, Update and Delete calls on
\* objects of the four kinds, the memoryStore and the etcdStore answer each
\* call with the same outcome (success, already exists, not found), and each
\* Get and List with the same set of objects.
C31_BackendsAgree ==
    /\ OutcomeOf(pair.mem.err) = OutcomeOf(pair.etcd.err)
    /\ pair.op \in {"Get", "List"} => pair.mem.out = pair.etcd.out

----------------------------------------------------------------------------
(* Specification of watch shutdown: a store of either backend, two watchers,
   a writer, the consumers that close Stop, Close called up to MaxCloses
   times, the cleanup goroutines and gc *)

NextShut ==
    \/ \E b \in {"memory", "etcd"} : NewBackend(b)
    \/ \E w \in Watchers, sc \in WatchScopes : ShutWatch(w, sc[1], sc[2])
    \/ \E o \in EtcdObjects : ShutCreate(o)
    \/ \E w \in Watchers : StopWatch(w)
    \/ \E w \in Watchers : Cleanup(w)
    \/ StoreClose
    \/ Gc

SpecShut == Init /\ [][NextShut]_vars

----------------------------------------------------------------------------
(* Claims about watch shutdown *)

\* C32: under every interleaving of a consumer closing the Stop channel of
\* its watch, Close (once or repeatedly), the watcher-removal goroutine, gc
\* and a write that notifies watchers, nothing sends on a closed channel and
\* nothing closes a closed channel, on the memoryStore and on the etcdStore.
C32_NoChannelPanic == shut.panic = PanicNone

----------------------------------------------------------------------------
(* Specification of object creation through every path: clients post pods to
   the API server, a ReplicaSet is stored and scaled, the ReplicaSet
   reconciler syncs it, and the clock advances *)

\* the bodies posted: well formed pods with one container
PostedPods ==
    {RequestPod(name, <<Container(<<"c">>, <<"i">>)>>) : name \in {<<"p">>, <<"q">>}}

NextUID ==
    \/ \E body \in PostedPods : ServerCreatePod(NsDefault, body)
    \/ \E rs \in ReplicaSets : MemCreate(rs)
    \/ \E rs \in ReplicaSets : MemUpdate(rs)
    \/ SyncReplicaSets(1)
    \/ EnsurePodsList(1)
    \/ CreatePod(1)
    \/ DeletePod(1)
    \/ UpdateReplicaSetStatus(1)
    \/ Tick

SpecUID == Init /\ [][NextUID]_vars

----------------------------------------------------------------------------
(* Claims about UIDs *)

\* C33: every live object has a non-empty UID and no two live objects have
\* the same UID, whether it was created through the API server or by a
\* reconciler, at every reading of the clock.
C33_UIDsNonEmptyAndUnique ==
    /\ \A k \in DOMAIN objects : objects[k].uid # <<>>
    /\ \A k1, k2 \in DOMAIN objects :
          k1 # k2 => objects[k1].uid # objects[k2].uid

----------------------------------------------------------------------------
(* Claims about the reconcilers' writes *)

\* C34: the status write-back of the ReplicaSet reconciler changes only the
\* status: the spec.replicas stored for a ReplicaSet before the reconciler's
\* Update, as the last client wrote it (also between the reconciler's List
\* and this Update), is the spec.replicas stored after it.
C34_StatusWriteKeepsSpec ==
    [][UpdateReplicaSetStatus(1)
         => \A k \in DOMAIN objects :
               k[1] = "ReplicaSet" => objects'[k].replicas = objects[k].replicas]_vars

----------------------------------------------------------------------------
(* Specification of the two reconcilers of the controller manager on one
   store: a client creates a deployment, the Deployment reconciler
   and the ReplicaSet reconciler sync, their store calls interleaving, and
   the clock advances *)

\* the deployments a client may create: one image
ScaledDeployments == {d \in Deployments : d.template.image = <<"a">>}

NextCtl ==
    \/ \E deployment \in ScaledDeployments : MemCreate(deployment)
    \/ SyncDeployments
    \/ EnsureReplicaSet
    \/ DeploymentEnsurePods
    \/ DeploymentCreatePod
    \/ DeploymentDeletePod
    \/ DeploymentUpdateStatus
    \/ SyncReplicaSets(1)
    \/ EnsurePodsList(1)
    \/ CreatePod(1)
    \/ DeletePod(1)
    \/ UpdateReplicaSetStatus(1)
    \/ Tick

SpecCtl == Init /\ [][NextCtl]_vars

\* the stored ReplicaSets
LiveReplicaSets(objs) == {objs[k] : k \in {x \in DOMAIN objs : x[1] = "ReplicaSet"}}

\* C35: with the Deployment reconciler and the ReplicaSet reconciler on one
\* store, no step of the Deployment reconciler creates a pod (the pods of a
\* deployment's ReplicaSet are created by the ReplicaSet reconciler only), and
\* after every step the pods owned by a ReplicaSet are at most its
\* spec.replicas, however the two reconcilers' steps interleave.
C35_PodsComeFromReplicaSetReconcilerOnly ==
    [][/\ dpc' # dpc => LivePods(objects') \subseteq LivePods(objects)
       /\ \A rs \in LiveReplicaSets(objects') :
             Cardinality(OwnedBy(LivePods(objects'), rs)) <= rs.replicas]_vars


----------------------------------------------------------------------------
(* Specification of the reconcilers on a store that fails: a client creates
   deployments and a pod, then the manager's syncAll calls the Sync of one
   reconciler after the other until each has returned once, and the store
   becomes unreachable and reachable again between any two store calls *)

\* two deployments, and so two ReplicaSets, so that a pass of either
\* reconciler has an object after the one that failed
FaultDeployments ==
    {NewDeployment(<<"d">>, <<"u">>, 0, <<"a">>), NewDeployment(<<"e">>, <<"v">>, 1, <<"a">>)}

\* a pod left behind by an earlier ReplicaSet d-0, surplus when d has no replicas
LeftPod == ClientPod(NsDefault, <<"y">>, <<OwnerRef("ReplicaSet", <<"d", "-", "0">>, <<>>)>>)

\* no reconciler has synced yet
BeforeSyncs == rsc.nsyncs = 0 /\ dpc.nsyncs = 0

NextFault ==
    \/ \E deployment \in FaultDeployments :
          BeforeSyncs /\ ~unavailable /\ MemCreate(deployment)
    \/ BeforeSyncs /\ ~unavailable /\ MemCreate(LeftPod)
    \/ rsc.pass[1].ret = "none" /\ dpc.pc = "idle" /\ SyncReplicaSets(1)
    \/ EnsurePodsList(1)
    \/ CreatePod(1)
    \/ DeletePod(1)
    \/ UpdateReplicaSetStatus(1)
    \/ dpc.ret = "none" /\ rsc.pass[1].pc = "idle" /\ SyncDeployments
    \/ EnsureReplicaSet
    \/ DeploymentEnsurePods
    \/ DeploymentCreatePod
    \/ DeploymentDeletePod
    \/ DeploymentUpdateStatus
    \/ Outage

SpecFault == Init /\ [][NextFault]_vars

----------------------------------------------------------------------------
(* Claims about the reconcilers' error handling *)

\* a sync that returned ret after a List of the kind with error listErr, having
\* listed and tried these objects
Absorbing(pass) ==
    /\ pass.ret # ErrNone => pass.listErr # ErrNone
    /\ pass.listErr = ErrNone => pass.ret = ErrNone /\ pass.tried = pass.listed

\* C36: a reconciler's Sync returns an error only when the List of the
\* reconciled kind failed; when a pod list, pod create, pod delete or status
\* update of one ReplicaSet or Deployment fails, the remaining objects of the
\* pass are still synced and Sync returns no error.
C36_SyncAbsorbsObjectErrors ==
    /\ rsc.pass[1].pc = "idle" /\ rsc.pass[1].ret # "none" => Absorbing(rsc.pass[1])
    /\ dpc.pc = "idle" /\ dpc.ret # "none" => Absorbing(dpc)

\* a sync of either reconciler has returned no error after listing two objects
\* and meeting a failure with each
C36_Witness ==
    /\ rsc.pass[1].pc = "idle" /\ rsc.pass[1].ret = ErrNone
    /\ Cardinality(rsc.pass[1].listed) = 2 /\ rsc.pass[1].failed = rsc.pass[1].listed
    /\ dpc.pc = "idle" /\ dpc.ret = ErrNone
    /\ Cardinality(dpc.listed) = 2 /\ dpc.failed = dpc.listed

-----------------------------------------------------------------------------
(* Claims about the names of the pods a ReplicaSet reconciler creates *)

\* the store.Create that createPod of goroutine p is about to make: the pod
\* named <rs-name>-<time.Now().UnixNano()>
CreatePodCall(p) ==
    MemCreateCall(objects, watchers, wch, now, nwrites + 1, TemplatePod(Syncing(p), now))

\* C37: no Create of a scale-up pass fails with 'already exists': when the
\* generated name is that of a live pod the reconciler takes another name, so
\* every createPod of the pass adds a pod.
C37_CollisionRegeneratesName ==
    [][\A p \in Passes :
          CreatePod(p) => CreatePodCall(p).err # ErrAlreadyExists]_vars

-----------------------------------------------------------------------------
(* Specification of Start and Stop: a manager with its controllers, or one
   reconciler, scheduler or node agent, is made, started and stopped any
   number of times, its context may be cancelled, and its goroutines return *)

NextLife ==
    \/ \E c \in Controllers : life.c = "none" /\ AddController(c)
    \/ life.c = "none" /\ ManagerStart
    \/ life.c = "none" /\ ManagerStop
    \/ life.c = "none" /\ CancelContext
    \/ \E g \in Goroutines : SyncLoopReturns(g)
    \/ \E g \in Goroutines : SyncLoopTick(g)
    \/ \E g \in Goroutines : SyncAllOne(g)
    \/ \E c \in Lifecycles : mgr = NewManager /\ NewComponent(c)
    \/ \E c \in Lifecycles : Start(c)
    \/ \E c \in Lifecycles : Stop(c)
    \/ CancelLife
    \/ \E g \in Goroutines : \E l \in Loops : GoroutineReturns(g, l)

SpecLife == Init /\ [][NextLife]_vars

\* C38: any sequence of Start and Stop is safe for the manager, the
\* reconcilers, the scheduler and the node agent: a Stop of a component that is
\* not running changes nothing, no Stop closes a closed stop channel (panics),
\* and while a component is reported as running and its context is live,
\* none of the goroutines of its last Start has returned.
C38_StartStopSequencesSafe ==
    [][/\ \A c \in Lifecycles :
             (Stop(c) /\ ~life.running) =>
                 life' = [life EXCEPT !.last = [op |-> "Stop", err |-> FALSE]]
       /\ (ManagerStop /\ ~mgr.running) =>
             mgr' = [mgr EXCEPT !.last = [op |-> "Stop", err |-> FALSE]]
       /\ ~life'.panic
       /\ ~mgr'.panic
       /\ (life'.running /\ ~life'.cancelled) =>
             \A l \in LoopsOf(life'.c) : life'.pc[life'.nstarts][l] = "select"
       /\ (mgr'.running /\ ~mgr'.cancelled /\ ~mgr'.panic) =>
             mgr'.loop[mgr'.nstarts].pc # "returned"
      ]_vars

-----------------------------------------------------------------------------
(* Specification of the node agent's syncPod: clients create, update and
   delete pods, bound to the agent's node or not; the agent syncs the pods of
   its node that the store lists, a caller hands syncPod a pod of its own, and
   the clock advances *)

\* the pods of the clients and of the callers of syncPod
AgentPods ==
    {[NewObject("Pod", NsDefault, name, "Pending") EXCEPT !.node = node, !.rv = rv] :
        name \in {<<"p">>, <<"q">>}, node \in {<<>>, NodeName}, rv \in {<<>>, <<"1">>}}

NextAgent ==
    \/ \E pod \in AgentPods : MemCreate(pod)
    \/ \E pod \in AgentPods : MemUpdate(pod)
    \/ \E pod \in AgentPods : MemDelete("Pod", pod.ns, pod.name)
    \/ \E pod \in NodePods(objects, wch) : AgentSyncPod(pod)
    \/ \E pod \in AgentPods : pod.node = NodeName /\ AgentSyncPod(pod)
    \/ Tick

SpecAgent == Init /\ [][NextAgent]_vars

\* C39: after syncPod of a pod that the agent tracked when it was called, the
\* agent has a local state entry for that pod, whether the pod handed over
\* carried the tracked resource-version (the status path) or another one (the
\* update path).
C39_SyncPodKeepsLocalState ==
    agent.last.tracked => agent.last.key \in DOMAIN agent.pods

-----------------------------------------------------------------------------
(* Specification of the API server's cluster-wide pod list: clients post pods
   to two namespaces and list the pods of the cluster, and the clock
   advances *)

NextList ==
    \/ \E namespace \in {NsDef, NsDefault}, body \in PostedPods :
          ServerCreatePod(namespace, body)
    \/ ServerListAllPods
    \/ Tick

SpecList == Init /\ [][NextList]_vars

\* C40: the response to GET /api/v1alpha1/pods holds every live pod of every
\* namespace.
C40_ListAllPodsCoversEveryNamespace ==
    [][ServerListAllPods
         => resp'.status = StatusOK /\ resp'.items = LivePods(objects)]_vars

=============================================================================
